---- MODULE Spec2Model ----
(***************************************************************************)
(* Turn controller of the simulated-patient dialogue backend.              *)
(*                                                                         *)
(* The model follows backend/graph.py (the per-message pipeline),          *)
(* backend/guardrails.py, backend/policy.py, backend/prompting.py,         *)
(* backend/repos.py (session / message / turn repositories) and the        *)
(* send / end-visit handlers of backend/api.py.                            *)
(*                                                                         *)
(* Texts are sequences of tokens.  A token is a word, a blank " ", or a    *)
(* sentence terminator; the regular expressions of the source are          *)
(* modelled by what they match on such token sequences.                    *)
(***************************************************************************)
EXTENDS Integers, Sequences, FiniteSets, TLC

(***************************************************************************)
(* Bounds of the model                                                     *)
(***************************************************************************)

\* number of pipeline runs (deliveries of a doctor message) explored
MaxRuns == 2

\* program constants
K_FACTS == 25

(***************************************************************************)
(* Generic helpers                                                         *)
(***************************************************************************)

Max(a, b) == IF a >= b THEN a ELSE b

SeqToSet(s) == { s[i] : i \in DOMAIN s }

InSeq(x, s) == \E i \in DOMAIN s : s[i] = x

\* Python: lst.append(x) when x is not yet in lst
AppendNew(s, x) == IF InSeq(x, s) THEN s ELSE Append(s, x)

RECURSIVE SeqOfSetBy(_, _)
\* a sequence listing the set S in increasing rank order
SeqOfSetBy(S, rank) ==
    IF S = {} THEN << >>
    ELSE LET m == CHOOSE x \in S : \A y \in S : rank[x] <= rank[y]
         IN  << m >> \o SeqOfSetBy(S \ {m}, rank)

(***************************************************************************)
(* The case document: fact units ("chunks"), authored offline              *)
(***************************************************************************)

\* chunk_id, visit_no, stage, kind, detail_depth
CaseChunks ==
    { [chunk_id |-> "c1", visit_no |-> 1, stage |-> 0, kind |-> "history", detail_depth |-> 1],
      [chunk_id |-> "c2", visit_no |-> 1, stage |-> 1, kind |-> "exam",    detail_depth |-> 1],
      [chunk_id |-> "c3", visit_no |-> 1, stage |-> 0, kind |-> "tests",   detail_depth |-> 1],
      [chunk_id |-> "c4", visit_no |-> 2, stage |-> 0, kind |-> "tests",   detail_depth |-> 2],
      [chunk_id |-> "c5", visit_no |-> 2, stage |-> 1, kind |-> "history", detail_depth |-> 3],
      [chunk_id |-> "c6", visit_no |-> 3, stage |-> 0, kind |-> "history", detail_depth |-> 1] }

ChunkIds == { ch.chunk_id : ch \in CaseChunks }

\* an ID the generative model may invent: it names no chunk of the case
UnknownId == "zz"

\* lexicographic order of the chunk ids (str comparison in the sort key)
IdRank == [ c1 |-> 1, c2 |-> 2, c3 |-> 3, c4 |-> 4, c5 |-> 5, c6 |-> 6 ]

\* chunk_index of persist_turn: chunk_id -> chunk
ChunkOf(fid) == CHOOSE ch \in CaseChunks : ch.chunk_id = fid

(***************************************************************************)
(* policy.py                                                               *)
(***************************************************************************)

\* faulty variant of max_detail_depth: the depth starts over after visit 3
max_detail_depth_cyclic(level, visit_no) ==
    ((Max(1, visit_no) - 1) % 3) + 1

max_detail_depth(level, visit_no) ==
    LET v == Max(1, visit_no)
    IN  IF v = 1 THEN 1 ELSE IF v = 2 THEN 2 ELSE 3

\* faulty variant of max_visits: the level is not clamped
max_visits_unclamped(level) ==
    IF level = 0 \/ level = 1 THEN 2 ELSE IF level = 2 THEN 3 ELSE IF level = 3 THEN 4 ELSE 5

max_visits(level) ==
    LET l == Max(0, level)
    IN  IF l <= 1 THEN 2 ELSE IF l = 2 THEN 3 ELSE IF l = 3 THEN 4 ELSE 5

\* faulty variant of allowed_tools: tests unlocked at every visit
allowed_tools_no_gate(level, visit_no) == {"history", "exam", "tests"}

allowed_tools(level, visit_no) ==
    LET v == Max(1, visit_no)
    IN  {"history", "exam"} \cup (IF v >= 2 THEN {"tests"} ELSE {})

(***************************************************************************)
(* prompting.py: build_allowed_facts                                       *)
(***************************************************************************)

\* sort key (visit_no, stage, chunk_id) folded into one rank
ChunkSortRank ==
    [ ch \in CaseChunks |-> (ch.visit_no * 100) + (ch.stage * 10) + IdRank[ch.chunk_id] ]

EligibleChunk(ch, level, visit_no, disclosed) ==
    /\ ch.chunk_id \notin disclosed
    /\ ch.visit_no = visit_no
    /\ ch.detail_depth <= max_detail_depth(level, visit_no)
    /\ (ch.kind = "exam"  => "exam"  \in allowed_tools(level, visit_no))
    /\ (ch.kind = "tests" => "tests" \in allowed_tools(level, visit_no))

\* the loop appends a fact and only then tests len(facts) >= max_facts
FactCap(n, max_facts) ==
    IF n = 0 THEN 0
    ELSE IF n < Max(1, max_facts) THEN n ELSE Max(1, max_facts)

\* faulty variant of build_allowed_facts: no visit, depth or tool filter
build_allowed_facts_any_visit(level, visit_no, disclosed_fact_ids, max_facts) ==
    LET sorted == SeqOfSetBy({ ch \in CaseChunks : ch.chunk_id \notin SeqToSet(disclosed_fact_ids) },
                             ChunkSortRank)
        facts  == [ i \in DOMAIN sorted |-> [id |-> sorted[i].chunk_id, kind |-> sorted[i].kind] ]
    IN  SubSeq(facts, 1, FactCap(Len(facts), max_facts))

\* the facts of the current visit the model may cite, at most max_facts of them
build_allowed_facts(level, visit_no, disclosed_fact_ids, max_facts) ==
    LET disclosed == SeqToSet(disclosed_fact_ids)
        sorted    == SeqOfSetBy({ ch \in CaseChunks :
                                    EligibleChunk(ch, level, visit_no, disclosed) },
                                ChunkSortRank)
        facts     == [ i \in DOMAIN sorted |-> [id |-> sorted[i].chunk_id, kind |-> sorted[i].kind] ]
    IN  SubSeq(facts, 1, FactCap(Len(facts), max_facts))

(***************************************************************************)
(* Texts                                                                   *)
(***************************************************************************)

Terminators == {".", "!", "?"}
Blank == " "

\* str.lower() on a token
Lower(tok) ==
    CASE tok = "Thanks" -> "thanks"
      [] tok = "Test"   -> "test"
      [] OTHER          -> tok

\* tokens whose lower-case form contains the substring "thank"
ThankWords == {"thank", "thanks"}

HasThank(text) == \E i \in DOMAIN text : Lower(text[i]) \in ThankWords

RECURSIVE RStrip(_)
RStrip(text) ==
    IF text # << >> /\ text[Len(text)] = Blank
    THEN RStrip(SubSeq(text, 1, Len(text) - 1))
    ELSE text

RECURSIVE LStrip(_)
LStrip(text) ==
    IF text # << >> /\ Head(text) = Blank THEN LStrip(Tail(text)) ELSE text

Strip(text) == LStrip(RStrip(text))

\* truthiness of "text and text.strip()"
NonBlank(text) == Strip(text) # << >>

\* len([s for s in re.split(r"[.!?]+", text) if s.strip()])
SentenceCount(text) ==
    Cardinality({ i \in DOMAIN text :
        /\ text[i] \notin Terminators
        /\ text[i] # Blank
        \* i is the first non-blank token of its piece
        /\ \A j \in 1..(i - 1) :
              (\A k \in j..(i - 1) : text[k] \notin Terminators)
                 => text[j] = Blank })

\* f"{text.rstrip()} Thanks."
ThanksClause == << Blank, "Thanks", "." >>

\* faulty variant of _append_thanks: no bound on the sentences
_append_thanks_unbounded(text) == RStrip(text) \o ThanksClause

_append_thanks(text) ==
    IF SentenceCount(text) >= 3 THEN text ELSE RStrip(text) \o ThanksClause

\* the fixed utterances of the tool precheck
TestAckUtterance     == << "test_ordered", "." >>
TestDenialUtterance  == << "sorry", "test_not_permitted", "." >>
ExamAckUtterance     == << "exam_now", "." >>
ExamDenialUtterance  == << "sorry", "exam_not_available", "." >>
MedRefusalUtterance  == << "no_medications", "." >>
SafeFallbackUtterance == << "not_sure_about_specifics", "." >>
RedactedToken == "[redacted]"

\* the visit-1 greeting: "Hi, thanks for seeing me today. ... ... "
FirstVisitIntro ==
    << "hi", "thanks", ".", Blank, "main_concern", ".", Blank, "please_ask", "." >>

(***************************************************************************)
(* Request patterns of graph.py                                            *)
(***************************************************************************)

TestWords     == {"test", "tests", "lab", "xray", "mri", "swab"}
ExamWords     == {"exam", "physical", "examine"}
MedWords      == {"med", "meds", "medication", "prescribe", "rx"}
FollowupWords == {"followup", "return", "come_back", "see_you", "check_in"}

_looks_like_test_request(text) ==
    \E i \in DOMAIN text : Lower(text[i]) \in TestWords

_looks_like_exam_request(text) ==
    \E i \in DOMAIN text : Lower(text[i]) \in ExamWords

_looks_like_medicine_request(text) ==
    \E i \in DOMAIN text : Lower(text[i]) \in MedWords

_looks_like_followup_request(text) ==
    \E i \in DOMAIN text : Lower(text[i]) \in FollowupWords

\* case_type.strip().lower().startswith("viral")
ViralCaseTypes == {"viral", "viral_uri"}
_is_viral_case(case_type) == case_type \in ViralCaseTypes

(***************************************************************************)
(* guardrails.py                                                           *)
(***************************************************************************)

\* faulty variant of validate_fact_ids: every proposed id is kept
validate_fact_ids_trusting(proposed_ids, allowed_ids, already_disclosed_ids) ==
    [ safe  |-> proposed_ids,
      flags |-> << >> ]

RECURSIVE validate_fact_ids(_, _, _)
\* (safe_ids, flags) in the order of the proposed ids
validate_fact_ids(proposed_ids, allowed_ids, already_disclosed_ids) ==
    IF proposed_ids = << >> THEN [safe |-> << >>, flags |-> << >>]
    ELSE LET fid  == Head(proposed_ids)
             rest == validate_fact_ids(Tail(proposed_ids), allowed_ids, already_disclosed_ids)
         IN  IF fid \notin allowed_ids
               THEN [safe |-> rest.safe, flags |-> << "fact_id_not_allowed" >> \o rest.flags]
             ELSE IF fid \in already_disclosed_ids
               THEN [safe |-> rest.safe, flags |-> << "fact_id_repeated" >> \o rest.flags]
             ELSE [safe |-> << fid >> \o rest.safe, flags |-> rest.flags]

\* diag_pat: an opener ("i have", "it is", ...) followed, on the same text,
\* by a diagnosis word; greedy, so the match runs to the last diagnosis word
DxOpeners == {"i_have", "it_is", "diagnosis"}
DxWords   == {"cancer", "ulcer"}

DxMatchStart(t) ==
    { i \in DOMAIN t : t[i] \in DxOpeners /\ \E j \in (i + 1)..Len(t) : t[j] \in DxWords }

\* faulty variant of strip_unsafe_mentions: no redaction, no fallback
strip_unsafe_mentions_no_fallback(text) == [ text |-> Strip(text), flags |-> << >> ]

strip_unsafe_mentions(text) ==
    LET t0    == Strip(text)
        hit   == DxMatchStart(t0) # {}
        first == CHOOSE i \in DxMatchStart(t0) : \A k \in DxMatchStart(t0) : i <= k
        last  == CHOOSE j \in DOMAIN t0 :
                    /\ t0[j] \in DxWords
                    /\ \A k \in DOMAIN t0 : t0[k] \in DxWords => k <= j
        t1    == IF hit
                 THEN SubSeq(t0, 1, first - 1) \o << RedactedToken >> \o SubSeq(t0, last + 1, Len(t0))
                 ELSE t0
        f1    == IF hit THEN << "utterance_redacted_possible_dx" >> ELSE << >>
        empty == t1 = << >> \/ t1 = << RedactedToken >>
    IN  [ text  |-> IF empty THEN SafeFallbackUtterance ELSE t1,
          flags |-> f1 \o (IF empty THEN << "utterance_replaced_safe_fallback" >> ELSE << >>) ]

\* resp: the turn state read as a PatientResponse
apply_guardrails(resp, allowed_facts, already_disclosed_fact_ids, mode) ==
    LET allowed_ids == { allowed_facts[i].id : i \in DOMAIN allowed_facts }
        already     == SeqToSet(already_disclosed_fact_ids)
        v           == validate_fact_ids(resp.new_disclosed_fact_ids, allowed_ids, already)
        u           == strip_unsafe_mentions(resp.patient_utterance)
        safety      == resp.safety_flags \o v.flags \o u.flags
        tried_disallowed == InSeq("fact_id_not_allowed", v.flags)
    IN  IF tried_disallowed /\ mode = "reject_once_else_strip"
        THEN [ patient_utterance      |-> u.text,
               new_disclosed_fact_ids |-> v.safe,
               safety_flags           |-> safety \o << "guardrail_reject_regenerate" >>,
               rejected               |-> TRUE ]
        ELSE [ patient_utterance      |-> u.text,
               new_disclosed_fact_ids |-> v.safe,
               safety_flags           |-> safety,
               rejected               |-> FALSE ]

(***************************************************************************)
(* Inputs                                                                  *)
(***************************************************************************)

\* doctor levels with different visit caps
Levels == {0, 2}
CaseTypes == {"viral", "bacterial"}

\* doctor messages (already stripped, never empty: send_message rejects those)
DoctorMessages ==
    { << "return" >>,
      << "exam", Blank, "Test" >>,
      << "meds" >>,
      << "exam", Blank, "meds" >>,
      << "return", Blank, "test" >> }

\* what the generative collaborator may answer (PatientResponse: the
\* utterance has at least one character)
LLMOutputs ==
    { [ patient_utterance |-> << "fine", "." >>,
        new_disclosed_fact_ids |-> << "c1" >>,
        visit_end_recommendation |-> FALSE, safety_flags |-> << >> ],
      [ patient_utterance |-> << "Thanks", "doctor", "." >>,
        new_disclosed_fact_ids |-> << "c4", "c1" >>,
        visit_end_recommendation |-> TRUE, safety_flags |-> << "model_flag" >> ],
      [ patient_utterance |-> << "a", ".", Blank, "b", "!", Blank, "c", "?" >>,
        new_disclosed_fact_ids |-> << UnknownId >>,
        visit_end_recommendation |-> FALSE, safety_flags |-> << >> ],
      [ patient_utterance |-> << "well", "i_have", "thanks", "cancer" >>,
        new_disclosed_fact_ids |-> << "c2", "c2" >>,
        visit_end_recommendation |-> FALSE, safety_flags |-> << >> ],
      [ patient_utterance |-> << Blank >>,
        new_disclosed_fact_ids |-> << "c5", "c3" >>,
        visit_end_recommendation |-> TRUE, safety_flags |-> << >> ] }

\* the summary_text field of the summary collaborator's JSON answer
SummaryOutputs == { << Blank, "cough", Blank, "3d", Blank >>, << Blank >> }

\* call_summary_agent: the field stripped; an empty one is an error
call_summary_agent(raw) == Strip(raw)

\* what summarize_visit_one_call stores: no doctor message of the model
\* matches the medication-instruction pattern, so nothing is appended to
\* what call_summary_agent returns
SummaryTexts ==
    { call_summary_agent(raw) : raw \in { r \in SummaryOutputs : NonBlank(r) } }

(***************************************************************************)
(* State                                                                   *)
(***************************************************************************)

Procs == {1, 2}

VARIABLES
    env,        \* deployment: doctor level, case type, REGEN_ON_REJECT
    session,    \* the session row (sessions table)
    messages,   \* the messages table, in insertion order
    summaries,  \* the summaries table: visit number -> summary text
    pc,         \* per request handler: the pipeline node it is about to run
    st,         \* per request handler: its GraphState
    run,        \* per request handler: bookkeeping of the current run
    sent,       \* number of logical doctor turns sent so far
    runs,       \* number of deliveries so far
    call        \* an evaluation of a policy function: arguments and result

vars == << env, session, messages, summaries, pc, st, run, sent, runs, call >>

NoTurn == -1
NoTurnId == [v |-> 0, t |-> NoTurn]
NoText == << >>

\* GraphState() defaults, graph_state.py
DefaultState ==
    [ visit_number |-> 1, turn_in_visit |-> 0, doctor_turn_no |-> NoTurn, turn_id |-> NoTurnId,
      is_new_visit |-> TRUE, last_visit_summary |-> NoText, should_call_llm |-> TRUE,
      disclosed_fact_ids |-> << >>, performed_exams |-> << >>, performed_tests |-> << >>,
      last_doctor_message |-> NoText,
      doctor_level |-> 0, case_type |-> "", allowed_facts |-> << >>,
      patient_utterance |-> NoText, response_source |-> "llm",
      new_disclosed_fact_ids |-> << >>, safety_flags |-> << >>,
      visit_end_recommendation |-> FALSE,
      llm_attempts |-> 0, should_end_visit |-> FALSE, guardrail_rejected |-> FALSE,
      llm_usage |-> 0, raw_llm_output |-> NoText ]

\* bookkeeping of a run: the logical turn it delivers and its text, what the
\* stored session was when the run started (ledger0, turn0, visit0) and when
\* the logical turn was first delivered (origin_turn0), the fact ids the
\* collaborator proposed, and what the run has done so far
IdleRun ==
    [ lid |-> 0, message |-> NoText, ledger0 |-> << << >>, << >>, << >> >>, turn0 |-> 0, visit0 |-> 0,
      origin_turn0 |-> 0, proposed |-> {},
      current_turn |-> 0, redelivery |-> FALSE,
      llm_calls |-> 0, msg_writes |-> 0, ledger_updates |-> 0, bumps |-> 0,
      already_persisted |-> FALSE, result |-> "none", failed_at |-> "none",
      embed_failures |-> 0 ]

\* SessionRepo.create: the row of a new session
NewSessionRow ==
    [ visit_number |-> 1, turn_in_visit |-> 0,
      graph_state |-> [ disclosed_fact_ids |-> << >>, performed_exams |-> << >>,
                        performed_tests |-> << >>, turn_no |-> 0 ] ]

\* _session_row_to_doc
_session_row_to_doc(row) ==
    [ visit_no |-> row.visit_number,
      turn_no  |-> row.graph_state.turn_no,
      disclosed_fact_ids |-> row.graph_state.disclosed_fact_ids,
      performed_exams    |-> row.graph_state.performed_exams,
      performed_tests    |-> row.graph_state.performed_tests ]

SessionDoc == _session_row_to_doc(session)

StoredLedger ==
    << session.graph_state.disclosed_fact_ids,
       session.graph_state.performed_exams,
       session.graph_state.performed_tests >>

\* graph_state_from_session
graph_state_from_session(doc) ==
    [ DefaultState EXCEPT
        !.visit_number = doc.visit_no,
        !.turn_in_visit = Max(0, doc.turn_no \div 2),
        !.is_new_visit = (doc.turn_no = 0),
        !.disclosed_fact_ids = doc.disclosed_fact_ids,
        !.performed_exams = doc.performed_exams,
        !.performed_tests = doc.performed_tests ]

\* MessageRepo.get_turn_message: is there a row at (visit, index)?
HasMessage(visit_no, turn_no) ==
    \E i \in DOMAIN messages :
        messages[i].visit_number = visit_no /\ messages[i].turn_index = turn_no

\* TurnRepo.start_turn
start_turn(visit_no, doctor_turn_no) ==
    IF doctor_turn_no = 0
    THEN (IF HasMessage(visit_no, 0) THEN "persisted" ELSE "started")
    ELSE (IF HasMessage(visit_no, doctor_turn_no) /\ HasMessage(visit_no, doctor_turn_no + 1)
          THEN "persisted" ELSE "started")

AllowedIds(s) == { s.allowed_facts[i].id : i \in DOMAIN s.allowed_facts }

\* no evaluation is being observed
NoCall == [ fn |-> "none", level |-> 0, visit_no |-> 0, disclosed_fact_ids |-> << >>,
            max_facts |-> 0, state |-> DefaultState, mode |-> "reject_once_else_strip",
            done |-> FALSE, result |-> 0 ]

Init ==
    /\ env \in [ doctor_level : Levels, case_type : CaseTypes, REGEN_ON_REJECT : BOOLEAN,
                  embedding_may_raise : {FALSE} ]
    /\ session = NewSessionRow
    /\ messages = << >>
    /\ summaries = [ v \in {} |-> NoText ]
    /\ pc = [ p \in Procs |-> "idle" ]
    /\ st = [ p \in Procs |-> DefaultState ]
    /\ run = [ p \in Procs |-> IdleRun ]
    /\ sent = 0
    /\ runs = 0
    /\ call = NoCall

(***************************************************************************)
(* api.py: send_message.  A delivery carries either the next logical       *)
(* doctor turn or, again, the one sent last (a client retry).              *)
(***************************************************************************)

Goto(p, node) == pc' = [pc EXCEPT ![p] = node]

StartRun(p, lid, message, redelivery) ==
    /\ st' = [st EXCEPT ![p] =
                [ graph_state_from_session(SessionDoc)
                    EXCEPT !.last_doctor_message = message ]]
    /\ run' = [run EXCEPT ![p] =
                [ IdleRun EXCEPT !.lid = lid, !.message = message,
                                 !.redelivery = redelivery,
                                 !.ledger0 = StoredLedger,
                                 !.turn0 = SessionDoc.turn_no,
                                 !.origin_turn0 = IF redelivery THEN run[p].origin_turn0
                                                  ELSE SessionDoc.turn_no,
                                 !.visit0 = SessionDoc.visit_no ]]
    /\ runs' = runs + 1
    /\ Goto(p, "load_state")

SendMessage(p) ==
    /\ pc[p] = "idle"
    /\ runs < MaxRuns
    /\ \E message \in DoctorMessages : StartRun(p, sent + 1, message, FALSE)
    /\ sent' = sent + 1
    /\ UNCHANGED << env, session, messages, summaries, call >>

\* the client got its answer, or an error, and sends the same message again
ResendMessage(p) ==
    /\ pc[p] \in {"done", "failed"}
    /\ runs < MaxRuns
    /\ StartRun(p, run[p].lid, run[p].message, TRUE)
    /\ UNCHANGED << env, session, messages, summaries, sent, call >>

\* main.py (new, resume, the first send of a thread): the pipeline is entered
\* with the state of the stored session and no doctor message
OpenSession(p) ==
    /\ pc[p] = "idle"
    /\ runs < MaxRuns
    /\ StartRun(p, 0, NoText, FALSE)
    /\ UNCHANGED << env, session, messages, summaries, sent, call >>

(***************************************************************************)
(* graph.py: the nodes of build_visit_graph                                *)
(***************************************************************************)

LoadState(p) ==
    /\ pc[p] = "load_state"
    /\ LET s == st[p]
           doc == SessionDoc
           prior == IF doc.visit_no > 1 /\ (doc.visit_no - 1) \in DOMAIN summaries
                    THEN Strip(summaries[doc.visit_no - 1])
                    ELSE s.last_visit_summary
       IN  st' = [st EXCEPT ![p] =
                [ s EXCEPT
                    !.case_type = env.case_type,
                    !.visit_number = doc.visit_no,
                    !.turn_in_visit = Max(0, doc.turn_no \div 2),
                    !.is_new_visit = IF doc.turn_no > 0 THEN FALSE ELSE s.is_new_visit,
                    !.disclosed_fact_ids = doc.disclosed_fact_ids,
                    !.performed_exams = doc.performed_exams,
                    !.performed_tests = doc.performed_tests,
                    !.doctor_level = env.doctor_level,
                    !.allowed_facts = build_allowed_facts(env.doctor_level, doc.visit_no,
                                                          doc.disclosed_fact_ids, K_FACTS),
                    !.last_visit_summary = prior,
                    !.llm_attempts = 0,
                    !.doctor_turn_no = NoTurn,
                    !.turn_id = NoTurnId ]]
    /\ Goto(p, "compose_visit_intro")
    /\ UNCHANGED << env, session, messages, summaries, run, sent, runs, call >>

\* faulty variant of FollowupIntro: the blanks inside the recap are dropped
FollowupIntroCollapsed(last_visit_summary) ==
    LET summary == SelectSeq(last_visit_summary, LAMBDA t : t # Blank)
    IN  IF summary # << >>
        THEN << "welcome_back", ".", Blank, "recap", ":", Blank >> \o summary
                \o << ".", Blank, "today_focus", "." >>
        ELSE << "welcome_back", ".", Blank, "no_summary", ".", Blank, "today_focus", "." >>

\* the greeting of a visit after the first
FollowupIntro(last_visit_summary) ==
    LET summary == Strip(last_visit_summary)
        closed  == IF summary[Len(summary)] \in Terminators
                   THEN summary ELSE Append(summary, ".")
    IN  IF summary # << >>
        THEN << "welcome_back", ".", Blank, "recap", ":", Blank >> \o closed
                \o << Blank, "today_focus", "." >>
        ELSE << "welcome_back", ".", Blank, "no_summary", ".", Blank, "today_focus", "." >>

ComposeVisitIntro(p) ==
    /\ pc[p] = "compose_visit_intro"
    /\ LET s == st[p]
           intro == IF s.visit_number = 1 THEN FirstVisitIntro
                    ELSE FollowupIntro(s.last_visit_summary)
       IN  st' = [st EXCEPT ![p] =
                IF ~ s.is_new_visit THEN s
                ELSE [ s EXCEPT !.response_source = "system_intro",
                                !.patient_utterance = intro ]]
    /\ Goto(p, "persist_patient_intro")
    /\ UNCHANGED << env, session, messages, summaries, run, sent, runs, call >>

\* the content column.  A patient row keeps its text.  The text of a doctor
\* row is the text of the logical turn the row was written for, which the row
\* names in lid: the row keeps only whether that text is empty.
StoredContent(role, content) ==
    IF role = "doctor" THEN (IF content = NoText THEN NoText ELSE << "doctor_text" >>)
    ELSE content

\* MessageRepo.upsert_turn_message: insert unless a row is at (visit, index)
upsert_turn_message(visit_no, turn_no, role, content, lid) ==
    IF HasMessage(visit_no, turn_no) THEN messages
    ELSE Append(messages, [ visit_number |-> visit_no, turn_index |-> turn_no,
                            role |-> role, content |-> StoredContent(role, content),
                            lid |-> lid ])

\* faulty variant of PersistPatientIntro: the intro is inserted without a
\* look at the rows of the visit
PersistPatientIntroAgain(p) ==
    /\ pc[p] = "persist_patient_intro"
    /\ LET s == st[p]
       IN  IF ~ s.is_new_visit
           THEN UNCHANGED << st, messages >>
           ELSE /\ NonBlank(s.patient_utterance)
                /\ messages' = Append(messages,
                                      [ visit_number |-> s.visit_number, turn_index |-> 0,
                                        role |-> "patient", content |-> s.patient_utterance,
                                        lid |-> 0 ])
                /\ st' = [st EXCEPT ![p] =
                            [ s EXCEPT !.turn_in_visit = 0, !.is_new_visit = FALSE ]]
    /\ Goto(p, "await_doctor_message")
    /\ UNCHANGED << env, session, summaries, run, sent, runs, call >>

PersistPatientIntro(p) ==
    /\ pc[p] = "persist_patient_intro"
    /\ LET s == st[p]
       IN  IF ~ s.is_new_visit
           THEN UNCHANGED << st, messages >>
           ELSE /\ NonBlank(s.patient_utterance)
                /\ messages' = IF start_turn(s.visit_number, 0) = "persisted"
                               THEN messages
                               ELSE upsert_turn_message(s.visit_number, 0, "patient",
                                                        s.patient_utterance, 0)
                /\ st' = [st EXCEPT ![p] =
                            [ s EXCEPT !.turn_in_visit = 0, !.is_new_visit = FALSE ]]
    /\ Goto(p, "await_doctor_message")
    /\ UNCHANGED << env, session, summaries, run, sent, runs, call >>

\* faulty variant of AwaitDoctorMessage: the pipeline goes on without a message
AwaitDoctorMessageNoSuspend(p) ==
    /\ pc[p] = "await_doctor_message"
    /\ Goto(p, "reset_turn_outputs")
    /\ UNCHANGED << env, session, messages, summaries, st, run, sent, runs, call >>

\* with a message the pipeline goes on; without one it is suspended
\* (NodeInterrupt) and the run returns
AwaitDoctorMessage(p) ==
    /\ pc[p] = "await_doctor_message"
    /\ IF NonBlank(st[p].last_doctor_message)
       THEN /\ Goto(p, "reset_turn_outputs")
            /\ UNCHANGED run
       ELSE /\ Goto(p, "done")
            /\ run' = [run EXCEPT ![p].result = "ok"]
    /\ UNCHANGED << env, session, messages, summaries, st, sent, runs, call >>

ResetTurnOutputs(p) ==
    /\ pc[p] = "reset_turn_outputs"
    /\ st' = [st EXCEPT ![p] =
                [ @ EXCEPT !.patient_utterance = NoText,
                           !.response_source = "llm",
                           !.new_disclosed_fact_ids = << >>,
                           !.safety_flags = << >>,
                           !.visit_end_recommendation = FALSE,
                           !.llm_attempts = 0,
                           !.should_end_visit = FALSE,
                           !.llm_usage = 0,
                           !.raw_llm_output = NoText,
                           !.guardrail_rejected = FALSE,
                           !.doctor_turn_no = NoTurn,
                           !.turn_id = NoTurnId,
                           !.should_call_llm = TRUE ]]
    /\ Goto(p, "tool_precheck")
    /\ UNCHANGED << env, session, messages, summaries, run, sent, runs, call >>

\* _apply_test_tool_response / _apply_exam_tool_response /
\* _apply_medicine_tool_response
ApplyToolResponse(s, utterance) ==
    [ s EXCEPT !.patient_utterance = utterance,
               !.new_disclosed_fact_ids = << >>,
               !.visit_end_recommendation = FALSE,
               !.should_end_visit = FALSE ]

_apply_test_tool_response(s, allowed) ==
    ApplyToolResponse(s, IF allowed THEN TestAckUtterance ELSE TestDenialUtterance)

_apply_exam_tool_response(s, allowed) ==
    ApplyToolResponse(s, IF allowed THEN ExamAckUtterance ELSE ExamDenialUtterance)

_apply_medicine_tool_response(s) ==
    ApplyToolResponse(s, MedRefusalUtterance)

\* faulty variant of PrecheckKind: medication is refused on every case type
PrecheckKindAlwaysRefuseMedication(text, case_type) ==
    IF _looks_like_test_request(text) THEN "tests"
    ELSE IF _looks_like_exam_request(text) THEN "exam"
    ELSE IF _looks_like_medicine_request(text) THEN "medication"
    ELSE "none"

\* faulty variant of PrecheckKind: the exam patterns are tried first
PrecheckKindExamFirst(text, case_type) ==
    IF _looks_like_exam_request(text) THEN "exam"
    ELSE IF _looks_like_test_request(text) THEN "tests"
    ELSE IF _looks_like_medicine_request(text)
         THEN (IF _is_viral_case(case_type) THEN "none" ELSE "medication")
    ELSE "none"

\* the family that handles the message: first match in the order
\* tests, exam, medication ("none": the message goes to the model)
PrecheckKind(text, case_type) ==
    IF _looks_like_test_request(text) THEN "tests"
    ELSE IF _looks_like_exam_request(text) THEN "exam"
    ELSE IF _looks_like_medicine_request(text)
         THEN (IF _is_viral_case(case_type) THEN "none" ELSE "medication")
    ELSE "none"

\* faulty variant of ToolAllowed: the allowed facts are not consulted
ToolAllowedByPolicyOnly(s, kind) ==
    kind \in allowed_tools(s.doctor_level, s.visit_number)

\* is a fact of that kind unlocked and on offer this turn?
ToolAllowed(s, kind) ==
    /\ kind \in allowed_tools(s.doctor_level, s.visit_number)
    /\ LET allowed_facts ==
              IF s.allowed_facts # << >> THEN s.allowed_facts
              ELSE build_allowed_facts(s.doctor_level, s.visit_number,
                                       s.disclosed_fact_ids, K_FACTS)
       IN  \E i \in DOMAIN allowed_facts : allowed_facts[i].kind = kind

\* faulty variant of tool_precheck: the flags of the last attempt are kept
tool_precheck_keeps_flags(s) ==
    LET text == s.last_doctor_message
        kind == PrecheckKind(text, s.case_type)
        answered ==
            CASE kind = "tests" -> _apply_test_tool_response(s, ToolAllowed(s, "tests"))
              [] kind = "exam"  -> _apply_exam_tool_response(s, ToolAllowed(s, "exam"))
              [] OTHER          -> _apply_medicine_tool_response(s)
    IN  IF text = NoText \/ kind = "none"
        THEN [ s EXCEPT !.should_call_llm = TRUE ]
        ELSE [ answered EXCEPT !.response_source = "tool",
                               !.should_call_llm = FALSE,
                               !.llm_attempts = 0,
                               !.llm_usage = 0,
                               !.raw_llm_output = NoText ]

\* faulty variant of tool_precheck: a handled message still goes to the model
tool_precheck_no_short_circuit(s) ==
    LET text == s.last_doctor_message
        kind == PrecheckKind(text, s.case_type)
        answered ==
            CASE kind = "tests" -> _apply_test_tool_response(s, ToolAllowed(s, "tests"))
              [] kind = "exam"  -> _apply_exam_tool_response(s, ToolAllowed(s, "exam"))
              [] OTHER          -> _apply_medicine_tool_response(s)
    IN  IF text = NoText \/ kind = "none"
        THEN [ s EXCEPT !.should_call_llm = TRUE ]
        ELSE [ answered EXCEPT !.response_source = "tool",
                               !.should_call_llm = TRUE,
                               !.llm_attempts = 0,
                               !.llm_usage = 0,
                               !.raw_llm_output = NoText,
                               !.guardrail_rejected = FALSE,
                               !.safety_flags = << >> ]

tool_precheck(s) ==
    LET text == s.last_doctor_message
        kind == PrecheckKind(text, s.case_type)
        answered ==
            CASE kind = "tests" -> _apply_test_tool_response(s, ToolAllowed(s, "tests"))
              [] kind = "exam"  -> _apply_exam_tool_response(s, ToolAllowed(s, "exam"))
              [] OTHER          -> _apply_medicine_tool_response(s)
    IN  IF text = NoText \/ kind = "none"
        THEN [ s EXCEPT !.should_call_llm = TRUE ]
        ELSE [ answered EXCEPT !.response_source = "tool",
                               !.should_call_llm = FALSE,
                               !.llm_attempts = 0,
                               !.llm_usage = 0,
                               !.raw_llm_output = NoText,
                               !.guardrail_rejected = FALSE,
                               !.safety_flags = << >> ]

ToolPrecheck(p) ==
    /\ pc[p] = "tool_precheck"
    /\ st' = [st EXCEPT ![p] = tool_precheck(st[p])]
    /\ Goto(p, IF st'[p].should_call_llm THEN "retrieve_context" ELSE "persist_turn")
    /\ UNCHANGED << env, session, messages, summaries, run, sent, runs, call >>

\* retrieval only fills the prompt context
RetrieveContext(p) ==
    /\ pc[p] = "retrieve_context"
    /\ Goto(p, "generate_patient_response")
    /\ UNCHANGED << env, session, messages, summaries, st, run, sent, runs, call >>

\* the state after one answer of the generative collaborator
\* (llm_usage: the number of attempts whose usage it holds; raw_llm_output:
\* the raw text of the last answer)
TakeLLMOutput(s, res, attempts) ==
    [ s EXCEPT !.llm_attempts = attempts,
               !.llm_usage = attempts,
               !.raw_llm_output = << "raw" >> \o res.patient_utterance,
               !.patient_utterance = res.patient_utterance,
               !.new_disclosed_fact_ids = res.new_disclosed_fact_ids,
               !.safety_flags = res.safety_flags,
               !.visit_end_recommendation = res.visit_end_recommendation ]

GeneratePatientResponse(p) ==
    /\ pc[p] = "generate_patient_response"
    /\ IF st[p].last_doctor_message = NoText
       THEN UNCHANGED << st, run >>
       ELSE /\ \E res \in LLMOutputs :
                 st' = [st EXCEPT ![p] =
                          [ TakeLLMOutput(st[p], res, 1) EXCEPT !.guardrail_rejected = FALSE ]]
            /\ run' = [run EXCEPT ![p].llm_calls = @ + 1,
                                  ![p].proposed = SeqToSet(st'[p].new_disclosed_fact_ids)]
    /\ Goto(p, "validate_response")
    /\ UNCHANGED << env, session, messages, summaries, sent, runs, call >>

\* the turn state with a guardrail decision written into it
WithDecision(s, decision) ==
    [ s EXCEPT !.patient_utterance = decision.patient_utterance,
               !.new_disclosed_fact_ids = decision.new_disclosed_fact_ids,
               !.safety_flags = decision.safety_flags,
               !.guardrail_rejected = decision.rejected ]

FirstPass(s) ==
    WithDecision(s, apply_guardrails(s, s.allowed_facts, s.disclosed_fact_ids,
                                     "reject_once_else_strip"))

\* faulty variant of WantsRegeneration: a second call whatever the decision
WantsRegenerationAlways(s, regen_on_reject) == regen_on_reject /\ s.llm_attempts < 2

\* does validate_response ask the collaborator again?
WantsRegeneration(s, regen_on_reject) ==
    FirstPass(s).guardrail_rejected /\ regen_on_reject /\ s.llm_attempts < 2

\* faulty variant of SecondPass: the ids accepted from the first attempt are
\* kept in front of those of the second
SecondPassKeepingFirst(s, res2) ==
    LET first == FirstPass(s)
        s2 == TakeLLMOutput(first, res2, s.llm_attempts + 1)
        d2 == apply_guardrails(s2, s2.allowed_facts, s2.disclosed_fact_ids, "strip_only")
    IN  WithDecision(s2, [ d2 EXCEPT !.new_disclosed_fact_ids =
                                       first.new_disclosed_fact_ids \o @ ])

SecondPass(s, res2) ==
    LET s2 == TakeLLMOutput(FirstPass(s), res2, s.llm_attempts + 1)
    IN  WithDecision(s2, apply_guardrails(s2, s2.allowed_facts, s2.disclosed_fact_ids,
                                          "strip_only"))

\* faulty variant of ViralFollowupRule: the rule is missing
ViralFollowupRuleOff(s) == s

\* the viral follow-up rule at the end of validate_response
ViralFollowupRule(s) ==
    IF _is_viral_case(s.case_type) /\ _looks_like_followup_request(s.last_doctor_message)
    THEN [ s EXCEPT !.visit_end_recommendation = TRUE,
                    !.patient_utterance =
                        IF s.patient_utterance # NoText /\ ~ HasThank(s.patient_utterance)
                        THEN _append_thanks(s.patient_utterance)
                        ELSE s.patient_utterance ]
    ELSE s

ValidateResponse(p) ==
    /\ pc[p] = "validate_response"
    /\ IF st[p].last_doctor_message = NoText
       THEN UNCHANGED << st, run >>
       ELSE IF WantsRegeneration(st[p], env.REGEN_ON_REJECT)
       THEN \E res2 \in LLMOutputs :
              /\ st' = [st EXCEPT ![p] = ViralFollowupRule(SecondPass(st[p], res2))]
              /\ run' = [run EXCEPT ![p].llm_calls = @ + 1,
                                    ![p].proposed = @ \cup SeqToSet(res2.new_disclosed_fact_ids)]
       ELSE /\ st' = [st EXCEPT ![p] = ViralFollowupRule(FirstPass(st[p]))]
            /\ UNCHANGED run
    /\ Goto(p, "persist_turn")
    /\ UNCHANGED << env, session, messages, summaries, sent, runs, call >>

(***************************************************************************)
(* graph.py: persist_turn.  Each repository call is one step, so that a    *)
(* failure or a crash can fall between any two of them.                    *)
(***************************************************************************)

\* the doctor index of the turn: lines 497-510
DoctorTurnNo(s, doc) ==
    LET current_turn == Max(s.turn_in_visit, doc.turn_no \div 2)
        from_session == doc.turn_no + 1
        merged == IF s.doctor_turn_no # NoTurn
                  THEN Max(s.doctor_turn_no, from_session) ELSE from_session
    IN  IF merged <= 0 THEN (current_turn * 2) + 1 ELSE merged

\* faulty variant of PersistRoute: no early return for a persisted turn
PersistRouteNoEarlyReturn(status) == "write_doctor_message"

\* faulty variant of PersistRoute: the ledger is written before the messages
PersistRouteLedgerFirst(status) ==
    IF status = "persisted" THEN "maybe_end_visit" ELSE "update_ledger"

\* lines 522-532: a turn found persisted is not written again
PersistRoute(status) ==
    IF status = "persisted" THEN "maybe_end_visit" ELSE "write_doctor_message"

\* the idempotency check and, when the turn is already stored, the reload
PersistTurn(p) ==
    /\ pc[p] = "persist_turn"
    /\ LET s   == st[p]
           doc == SessionDoc
           doctor_turn_no == DoctorTurnNo(s, doc)
           turn_id == IF s.turn_id # NoTurnId THEN s.turn_id
                      ELSE [v |-> s.visit_number, t |-> doctor_turn_no]
           s1  == [ s EXCEPT !.doctor_turn_no = doctor_turn_no, !.turn_id = turn_id ]
       IN  IF s.last_doctor_message = NoText
           THEN /\ UNCHANGED << st, run >>
                /\ Goto(p, "maybe_end_visit")
           ELSE IF start_turn(s.visit_number, doctor_turn_no) = "persisted"
           THEN /\ st' = [st EXCEPT ![p] =
                            [ s1 EXCEPT !.turn_in_visit = Max(0, doc.turn_no \div 2),
                                        !.visit_number = doc.visit_no,
                                        !.disclosed_fact_ids = doc.disclosed_fact_ids,
                                        !.performed_exams = doc.performed_exams,
                                        !.performed_tests = doc.performed_tests,
                                        !.last_doctor_message = NoText ]]
                /\ run' = [run EXCEPT ![p].already_persisted = TRUE,
                                      ![p].current_turn =
                                          Max(s.turn_in_visit, doc.turn_no \div 2)]
                /\ Goto(p, PersistRoute("persisted"))
           ELSE /\ st' = [st EXCEPT ![p] = s1]
                /\ run' = [run EXCEPT ![p].current_turn =
                              Max(s.turn_in_visit, doc.turn_no \div 2)]
                /\ Goto(p, PersistRoute("started"))
    /\ UNCHANGED << env, session, messages, summaries, sent, runs, call >>

\* store_message_embedding inside try / except Exception: pass: whether the
\* call returns or raises, the node goes on.  The function of rag.py is a
\* stub that returns at once; a deployment with an embedding store that can
\* raise is env.embedding_may_raise
EmbeddingOutcomes ==
    IF env.embedding_may_raise THEN {"stored", "raised"} ELSE {"stored"}

\* faulty variant of WriteDoctorMessage: a raising embedding ends the run
WriteDoctorMessageEmbeddingFatal(p) ==
    /\ pc[p] = "write_doctor_message"
    /\ messages' = upsert_turn_message(st[p].visit_number, st[p].doctor_turn_no, "doctor",
                                       st[p].last_doctor_message, run[p].lid)
    /\ \E embedding \in EmbeddingOutcomes :
          IF embedding = "raised"
          THEN /\ run' = [run EXCEPT ![p].msg_writes = @ + (Len(messages') - Len(messages)),
                                      ![p].embed_failures = @ + 1,
                                      ![p].result = "error",
                                      ![p].failed_at = "write_doctor_message"]
               /\ Goto(p, "failed")
          ELSE /\ run' = [run EXCEPT ![p].msg_writes = @ + (Len(messages') - Len(messages))]
               /\ Goto(p, "write_patient_message")
    /\ UNCHANGED << env, session, summaries, st, sent, runs, call >>

\* the doctor row, then its embedding
WriteDoctorMessage(p) ==
    /\ pc[p] = "write_doctor_message"
    /\ messages' = upsert_turn_message(st[p].visit_number, st[p].doctor_turn_no, "doctor",
                                       st[p].last_doctor_message, run[p].lid)
    /\ \E embedding \in EmbeddingOutcomes :
          run' = [run EXCEPT ![p].msg_writes = @ + (Len(messages') - Len(messages)),
                             ![p].embed_failures =
                                 @ + (IF embedding = "raised" THEN 1 ELSE 0)]
    /\ Goto(p, "write_patient_message")
    /\ UNCHANGED << env, session, summaries, st, sent, runs, call >>

\* the patient row, then its embedding
WritePatientMessage(p) ==
    /\ pc[p] = "write_patient_message"
    /\ messages' = upsert_turn_message(st[p].visit_number, st[p].doctor_turn_no + 1, "patient",
                                       st[p].patient_utterance, run[p].lid)
    /\ \E embedding \in EmbeddingOutcomes :
          run' = [run EXCEPT ![p].msg_writes = @ + (Len(messages') - Len(messages)),
                             ![p].embed_failures =
                                 @ + (IF embedding = "raised" THEN 1 ELSE 0)]
    /\ Goto(p, "update_ledger")
    /\ UNCHANGED << env, session, summaries, st, sent, runs, call >>

\* faulty variant of MergeLedger: the turn's ids replace the ledger
MergeLedgerReplacing(s, fids) ==
    [ s EXCEPT !.disclosed_fact_ids = fids ]

RECURSIVE MergeLedgerAppending(_, _)
\* faulty variant of MergeLedger: ids are appended without a membership test
MergeLedgerAppending(s, fids) ==
    IF fids = << >> THEN s
    ELSE LET fid  == Head(fids)
             kind == IF fid \in ChunkIds THEN ChunkOf(fid).kind ELSE "none"
         IN  MergeLedgerAppending(
               [ s EXCEPT
                   !.disclosed_fact_ids = Append(@, fid),
                   !.performed_exams = IF kind = "exam"  THEN Append(@, fid) ELSE @,
                   !.performed_tests = IF kind = "tests" THEN Append(@, fid) ELSE @ ],
               Tail(fids))

RECURSIVE MergeLedger(_, _)
\* lines 600-610: merge the accepted fact ids into the in-memory ledger
MergeLedger(s, fids) ==
    IF fids = << >> THEN s
    ELSE LET fid  == Head(fids)
             kind == IF fid \in ChunkIds THEN ChunkOf(fid).kind ELSE "none"
         IN  MergeLedger(
               [ s EXCEPT
                   !.disclosed_fact_ids = AppendNew(@, fid),
                   !.performed_exams = IF kind = "exam"  THEN AppendNew(@, fid) ELSE @,
                   !.performed_tests = IF kind = "tests" THEN AppendNew(@, fid) ELSE @ ],
               Tail(fids))

\* the merge and SessionRepo.update_ledger
UpdateLedger(p) ==
    /\ pc[p] = "update_ledger"
    /\ LET s == MergeLedger(st[p], st[p].new_disclosed_fact_ids)
       IN  /\ st' = [st EXCEPT ![p] = s]
           /\ session' = [session EXCEPT
                            !.graph_state.disclosed_fact_ids = s.disclosed_fact_ids,
                            !.graph_state.performed_exams = s.performed_exams,
                            !.graph_state.performed_tests = s.performed_tests ]
    /\ run' = [run EXCEPT ![p].ledger_updates = @ + 1]
    /\ Goto(p, "bump_turn")
    /\ UNCHANGED << env, messages, summaries, sent, runs, call >>

\* faulty variant of bump_turn: the doctor index is stored, not the patient index
bump_turn_doctor_index(row, visit_no, turn_no) ==
    [ row EXCEPT !.visit_number = visit_no,
                 !.turn_in_visit = Max(0, (turn_no - 1) \div 2),
                 !.graph_state.turn_no = turn_no - 1 ]

\* SessionRepo.bump_turn: the columns and graph_state.turn_no it writes
bump_turn(row, visit_no, turn_no) ==
    [ row EXCEPT !.visit_number = visit_no,
                 !.turn_in_visit = Max(0, turn_no \div 2),
                 !.graph_state.turn_no = turn_no ]

\* SessionRepo.bump_turn, and the end of persist_turn
BumpTurn(p) ==
    /\ pc[p] = "bump_turn"
    /\ session' = bump_turn(session, st[p].visit_number, st[p].doctor_turn_no + 1)
    /\ st' = [st EXCEPT ![p] =
                [ @ EXCEPT !.turn_in_visit = run[p].current_turn + 1,
                           !.last_doctor_message = NoText ]]
    /\ run' = [run EXCEPT ![p].bumps = @ + 1]
    /\ Goto(p, "maybe_end_visit")
    /\ UNCHANGED << env, messages, summaries, sent, runs, call >>

\* faulty variant of maybe_end_visit: the recommendation ends the visit
maybe_end_visit_auto(s) == [ s EXCEPT !.should_end_visit = s.visit_end_recommendation ]

\* auto-ending is disabled
maybe_end_visit(s) == [ s EXCEPT !.should_end_visit = FALSE ]

\* the conditional edge after maybe_end_visit
MaybeEndVisitRoute(s) ==
    IF s.should_end_visit THEN "summarize_and_embed_visit" ELSE "await_doctor_message"

MaybeEndVisit(p) ==
    /\ pc[p] = "maybe_end_visit"
    /\ st' = [st EXCEPT ![p] = maybe_end_visit(st[p])]
    /\ Goto(p, MaybeEndVisitRoute(st'[p]))
    /\ UNCHANGED << env, session, messages, summaries, run, sent, runs, call >>

\* the nodes that call the store or the generative collaborator
FailPoints ==
    { "load_state", "persist_patient_intro", "generate_patient_response",
      "validate_response", "persist_turn", "write_doctor_message",
      "write_patient_message", "update_ledger", "bump_turn" }

\* faulty variant of Fail: a failed first generative call is answered with
\* the fallback utterance and the turn goes on
FailWithFallback(p) ==
    /\ pc[p] \in FailPoints
    /\ pc[p] = "validate_response" => WantsRegeneration(st[p], env.REGEN_ON_REJECT)
    /\ IF pc[p] = "generate_patient_response"
       THEN /\ st' = [st EXCEPT ![p].patient_utterance = SafeFallbackUtterance]
            /\ run' = [run EXCEPT ![p].failed_at = pc[p]]
            /\ Goto(p, "persist_turn")
       ELSE /\ run' = [run EXCEPT ![p].result = "error", ![p].failed_at = pc[p]]
            /\ Goto(p, "failed")
            /\ UNCHANGED st
    /\ UNCHANGED << env, session, messages, summaries, sent, runs, call >>

\* the call of the node raises (or the process dies there): the run ends,
\* nothing of it is written after this point
Fail(p) ==
    /\ pc[p] \in FailPoints
    /\ pc[p] = "validate_response" => WantsRegeneration(st[p], env.REGEN_ON_REJECT)
    /\ run' = [run EXCEPT ![p].result = "error", ![p].failed_at = pc[p]]
    /\ Goto(p, "failed")
    /\ UNCHANGED << env, session, messages, summaries, st, sent, runs, call >>

\* the handler returns; its GraphState is dropped
Respond(p) ==
    /\ pc[p] \in {"done", "failed"}
    /\ st' = [st EXCEPT ![p] = DefaultState]
    /\ run' = [run EXCEPT ![p] = IdleRun]
    /\ Goto(p, "idle")
    /\ UNCHANGED << env, session, messages, summaries, sent, runs, call >>

(***************************************************************************)
(* api.py: end_visit                                                       *)
(***************************************************************************)

\* faulty variant of end_visit: the turn counter is kept
end_visit_keep_turn(row, new_visit_no) ==
    [ row EXCEPT !.visit_number = new_visit_no ]

\* SessionRepo.end_visit with reset_turn_no
end_visit(row, new_visit_no) ==
    [ row EXCEPT !.visit_number = new_visit_no,
                 !.turn_in_visit = 0,
                 !.graph_state.turn_no = 0 ]

VisitMessages(visit_no) ==
    { i \in DOMAIN messages : messages[i].visit_number = visit_no }

\* faulty variant of EndVisit: the visit cap is not tested
EndVisitNoCap ==
    /\ \A p \in Procs : pc[p] = "idle"
    /\ LET cur_visit == SessionDoc.visit_no
       IN  /\ IF VisitMessages(cur_visit) # {}
              THEN \E summary_text \in SummaryTexts :
                      summaries' = [ v \in DOMAIN summaries \cup {cur_visit} |->
                                        IF v = cur_visit THEN summary_text ELSE summaries[v] ]
              ELSE UNCHANGED summaries
           /\ session' = end_visit(session, cur_visit + 1)
    /\ UNCHANGED << env, messages, pc, st, run, sent, runs, call >>

\* a request at the visit cap is answered with an error and changes nothing
EndVisit ==
    /\ \A p \in Procs : pc[p] = "idle"
    /\ LET cur_visit == SessionDoc.visit_no
       IN  /\ cur_visit < max_visits(env.doctor_level)
           /\ IF VisitMessages(cur_visit) # {}
              THEN \E summary_text \in SummaryTexts :
                      summaries' = [ v \in DOMAIN summaries \cup {cur_visit} |->
                                        IF v = cur_visit THEN summary_text ELSE summaries[v] ]
              ELSE UNCHANGED summaries
           /\ session' = end_visit(session, cur_visit + 1)
    /\ UNCHANGED << env, messages, pc, st, run, sent, runs, call >>

(***************************************************************************)
(* Specifications                                                          *)
(***************************************************************************)

\* one request at a time
Handler(p) ==
    \/ SendMessage(p)
    \/ ResendMessage(p)
    \/ LoadState(p)
    \/ ComposeVisitIntro(p)
    \/ PersistPatientIntro(p)
    \/ AwaitDoctorMessage(p)
    \/ ResetTurnOutputs(p)
    \/ ToolPrecheck(p)
    \/ RetrieveContext(p)
    \/ GeneratePatientResponse(p)
    \/ ValidateResponse(p)
    \/ PersistTurn(p)
    \/ WriteDoctorMessage(p)
    \/ WritePatientMessage(p)
    \/ UpdateLedger(p)
    \/ BumpTurn(p)
    \/ MaybeEndVisit(p)
    \/ Fail(p)
    \/ Respond(p)

Next ==
    \/ Handler(1)
    \/ EndVisit

Spec == Init /\ [][Next]_vars

\* a second delivery of the logical turn another handler is still serving
DuplicateDelivery(p) ==
    /\ pc[p] = "idle"
    /\ runs < MaxRuns
    /\ \E q \in Procs \ {p} :
          /\ pc[q] \notin {"idle", "done", "failed"}
          /\ StartRun(p, run[q].lid, run[q].message, TRUE)
    /\ UNCHANGED << env, session, messages, summaries, sent, call >>

\* the steps of one handler when requests overlap
Pipeline(p) ==
    \/ LoadState(p)
    \/ ComposeVisitIntro(p)
    \/ PersistPatientIntro(p)
    \/ AwaitDoctorMessage(p)
    \/ ResetTurnOutputs(p)
    \/ ToolPrecheck(p)
    \/ RetrieveContext(p)
    \/ GeneratePatientResponse(p)
    \/ ValidateResponse(p)
    \/ PersistTurn(p)
    \/ WriteDoctorMessage(p)
    \/ WritePatientMessage(p)
    \/ UpdateLedger(p)
    \/ BumpTurn(p)
    \/ MaybeEndVisit(p)

\* two overlapping deliveries of one logical turn: handler 1 serves the
\* first, handler 2 the second, and they interleave at the repository calls
NextConc ==
    \/ SendMessage(1)
    \/ DuplicateDelivery(2)
    \/ \E p \in Procs : Pipeline(p)

SpecConc == Init /\ [][NextConc]_vars

(***************************************************************************)
(* The sequential program with an embedding store that can raise           *)
(***************************************************************************)

InitEmbed ==
    /\ env \in [ doctor_level : {0}, case_type : CaseTypes, REGEN_ON_REJECT : {FALSE},
                  embedding_may_raise : {TRUE} ]
    /\ session = NewSessionRow
    /\ messages = << >>
    /\ summaries = [ v \in {} |-> NoText ]
    /\ pc = [ p \in Procs |-> "idle" ]
    /\ st = [ p \in Procs |-> DefaultState ]
    /\ run = [ p \in Procs |-> IdleRun ]
    /\ sent = 0
    /\ runs = 0
    /\ call = NoCall

SpecEmbed == InitEmbed /\ [][Next]_vars

\* a deployment without regeneration (REGEN_ON_REJECT unset)
InitOpen ==
    /\ Init
    /\ ~ env.REGEN_ON_REJECT

(***************************************************************************)
(* An end-visit request that overlaps a doctor-message turn                *)
(***************************************************************************)

\* api.py end_visit, served by handler q while another handler may be inside
\* the pipeline; the response reports the new visit number
EndVisitRequest(q) ==
    /\ pc[q] = "idle"
    /\ LET cur_visit == SessionDoc.visit_no
       IN  /\ cur_visit < max_visits(env.doctor_level)
           /\ IF VisitMessages(cur_visit) # {}
              THEN \E summary_text \in SummaryTexts :
                      summaries' = [ v \in DOMAIN summaries \cup {cur_visit} |->
                                        IF v = cur_visit THEN summary_text ELSE summaries[v] ]
              ELSE UNCHANGED summaries
           /\ session' = end_visit(session, cur_visit + 1)
           /\ run' = [run EXCEPT ![q] =
                        [ IdleRun EXCEPT !.result = "visit_ended", !.visit0 = cur_visit + 1 ]]
    /\ UNCHANGED << env, messages, pc, st, sent, runs, call >>

NextRace ==
    \/ SendMessage(1)
    \/ Pipeline(1)
    \/ Respond(1)
    \/ EndVisitRequest(2)

SpecRace == InitOpen /\ [][NextRace]_vars

\* the sequential program with the command line client's entries: sessions
\* are also opened and resumed without a message
NextOpen ==
    \/ OpenSession(1)
    \/ Handler(1)
    \/ EndVisit

SpecOpen == InitOpen /\ [][NextOpen]_vars

(***************************************************************************)
(* policy.py and build_allowed_facts on their own: one evaluation of one   *)
(* function, its arguments drawn from bounded sets                         *)
(***************************************************************************)

ArgSpan == 5

\* level and visit arguments, negative ones included
PolicyInts == (0 - ArgSpan) .. ArgSpan

\* ledgers: known ids, in any order, and an id that names no chunk
DisclosedInputs ==
    { << >>, << "c1" >>, << "c2", "c1" >>, << "c4" >>, << "c6", "c1" >>, << UnknownId >> }

MaxFactsInputs == {0, 1, 2, K_FACTS}

\* turn states handed to a node function on its own: any doctor message or
\* none, and bookkeeping as an earlier generative attempt leaves it
NodeStates ==
    { [ DefaultState EXCEPT
          !.last_doctor_message = m, !.case_type = c, !.visit_number = v,
          !.is_new_visit = FALSE,
          !.allowed_facts = build_allowed_facts(0, v, << >>, K_FACTS),
          !.should_call_llm = b,
          !.patient_utterance = stale.patient_utterance,
          !.new_disclosed_fact_ids = stale.new_disclosed_fact_ids,
          !.safety_flags = stale.safety_flags,
          !.guardrail_rejected = stale.guardrail_rejected,
          !.llm_attempts = stale.llm_attempts,
          !.llm_usage = stale.llm_attempts,
          !.raw_llm_output = stale.patient_utterance ] :
        m \in DoctorMessages \cup {NoText}, c \in CaseTypes, v \in {1, 2}, b \in BOOLEAN,
        stale \in
          { [ patient_utterance |-> NoText, new_disclosed_fact_ids |-> << >>,
              safety_flags |-> << >>, guardrail_rejected |-> FALSE, llm_attempts |-> 0 ],
            [ patient_utterance |-> << "fine", "." >>, new_disclosed_fact_ids |-> << "c1" >>,
              safety_flags |-> << >>, guardrail_rejected |-> FALSE, llm_attempts |-> 1 ],
            [ patient_utterance |-> SafeFallbackUtterance, new_disclosed_fact_ids |-> << >>,
              safety_flags |-> << "fact_id_not_allowed" >>, guardrail_rejected |-> TRUE,
              llm_attempts |-> 2 ] } }

NodeCalls ==
    { [ NoCall EXCEPT !.fn = "tool_precheck", !.state = s ] : s \in NodeStates }

\* proposals of the collaborator: allowed, unknown, repeated and doubled ids
ProposedInputs ==
    { << >>, << "c1" >>, << "c2", "c1" >>, << UnknownId, "c1" >>, << "c1", "c1" >>,
      << "c4", "c2", "c1", UnknownId >>, << "c3" >> }

\* a PatientResponse with the ledger and allowed facts it is judged against
GuardrailStates ==
    { [ DefaultState EXCEPT
          !.visit_number = v,
          !.disclosed_fact_ids = d,
          !.allowed_facts = build_allowed_facts(0, v, d, K_FACTS),
          !.patient_utterance = << "fine", "." >>,
          !.new_disclosed_fact_ids = ids,
          !.safety_flags = f,
          !.llm_attempts = 1 ] :
        v \in {1, 2}, d \in { << >>, << "c2" >>, << "c4" >> }, ids \in ProposedInputs,
        f \in { << >>, << "model_flag" >> } }

GuardrailModes == {"reject_once_else_strip", "strip_only"}

\* validated turn states as the viral follow-up rule finds them
FollowupStates ==
    { [ DefaultState EXCEPT
          !.last_doctor_message = m, !.case_type = c,
          !.patient_utterance = u, !.visit_end_recommendation = e,
          !.llm_attempts = 1 ] :
        m \in DoctorMessages, c \in CaseTypes, e \in BOOLEAN,
        u \in { strip_unsafe_mentions(res.patient_utterance).text : res \in LLMOutputs }
              \cup { << "fine", ".", Blank >>, << "a", ".", "b", "." >>, NoText } }

FollowupCalls ==
    { [ NoCall EXCEPT !.fn = "ViralFollowupRule", !.state = s ] : s \in FollowupStates }

\* validate_fact_ids is called with the allowed ids and, as the disclosed
\* ids, any ledger: a disclosed id may still be among the allowed ones
GuardrailCalls ==
    { [ NoCall EXCEPT !.fn = "apply_guardrails", !.state = s, !.mode = m ] :
        s \in GuardrailStates, m \in GuardrailModes }
    \cup { [ NoCall EXCEPT !.fn = "validate_fact_ids", !.state = s,
                           !.disclosed_fact_ids = d ] :
             s \in GuardrailStates, d \in { << >>, << "c1" >>, << "c2", "c4" >> } }

PolicyCalls ==
    { [ NoCall EXCEPT !.fn = f, !.level = l, !.visit_no = v ] :
        f \in {"max_detail_depth", "allowed_tools"}, l \in PolicyInts, v \in PolicyInts }
    \cup { [ NoCall EXCEPT !.fn = "max_visits", !.level = l ] : l \in PolicyInts }
    \cup { [ NoCall EXCEPT !.fn = "build_allowed_facts", !.level = l, !.visit_no = v,
                           !.disclosed_fact_ids = d, !.max_facts = k ] :
             l \in PolicyInts, v \in PolicyInts, d \in DisclosedInputs, k \in MaxFactsInputs }

InitPolicy ==
    /\ env = [ doctor_level |-> 0, case_type |-> "viral", REGEN_ON_REJECT |-> FALSE,
               embedding_may_raise |-> FALSE ]
    /\ session = NewSessionRow
    /\ messages = << >>
    /\ summaries = [ v \in {} |-> NoText ]
    /\ pc = [ p \in Procs |-> "idle" ]
    /\ st = [ p \in Procs |-> DefaultState ]
    /\ run = [ p \in Procs |-> IdleRun ]
    /\ sent = 0
    /\ runs = 0
    /\ call \in PolicyCalls \cup NodeCalls \cup GuardrailCalls \cup FollowupCalls

Returns(fn, value) ==
    /\ call.fn = fn
    /\ ~ call.done
    /\ call' = [ call EXCEPT !.done = TRUE, !.result = value ]
    /\ UNCHANGED << env, session, messages, summaries, pc, st, run, sent, runs >>

Call_max_detail_depth ==
    Returns("max_detail_depth", max_detail_depth(call.level, call.visit_no))

Call_allowed_tools ==
    Returns("allowed_tools", allowed_tools(call.level, call.visit_no))

Call_max_visits ==
    Returns("max_visits", max_visits(call.level))

Call_build_allowed_facts ==
    Returns("build_allowed_facts",
            build_allowed_facts(call.level, call.visit_no, call.disclosed_fact_ids,
                                call.max_facts))

Call_tool_precheck ==
    Returns("tool_precheck", tool_precheck(call.state))

Call_validate_fact_ids ==
    Returns("validate_fact_ids",
            validate_fact_ids(call.state.new_disclosed_fact_ids, AllowedIds(call.state),
                              SeqToSet(call.disclosed_fact_ids)))

Call_apply_guardrails ==
    Returns("apply_guardrails",
            apply_guardrails(call.state, call.state.allowed_facts,
                             call.state.disclosed_fact_ids, call.mode))

Call_ViralFollowupRule ==
    Returns("ViralFollowupRule", ViralFollowupRule(call.state))

NextPolicy ==
    \/ Call_tool_precheck
    \/ Call_ViralFollowupRule
    \/ Call_validate_fact_ids
    \/ Call_apply_guardrails
    \/ Call_max_detail_depth
    \/ Call_allowed_tools
    \/ Call_max_visits
    \/ Call_build_allowed_facts

SpecPolicy == InitPolicy /\ [][NextPolicy]_vars

(***************************************************************************)
(* Properties.  Handler 1 is the one that serves requests in Spec.         *)
(***************************************************************************)

InMemoryLedger(s) == << s.disclosed_fact_ids, s.performed_exams, s.performed_tests >>

\* the pipeline nodes after validate_response, up to the end of persist_turn
AfterValidate ==
    { "persist_turn", "write_doctor_message", "write_patient_message",
      "update_ledger", "bump_turn" }

PersistWrites ==
    { "write_doctor_message", "write_patient_message", "update_ledger", "bump_turn" }

\* rows stored for a logical turn, by role
TurnRows(lid, role) ==
    { i \in DOMAIN messages : messages[i].lid = lid /\ messages[i].role = role }

\* the patient row at the index the run's turn answers at
PatientRowsAt(p) ==
    { i \in DOMAIN messages :
        /\ messages[i].visit_number = st[p].visit_number
        /\ messages[i].turn_index = st[p].doctor_turn_no + 1
        /\ messages[i].role = "patient" }

\* C1: every fact id in the stored disclosed_fact_ids belongs to a case chunk
\* whose visit number is at most the stored current visit number.
C1_NoFutureVisitFact ==
    \A fid \in SeqToSet(session.graph_state.disclosed_fact_ids) :
        /\ fid \in ChunkIds
        /\ ChunkOf(fid).visit_no <= session.visit_number

C1_Witness ==
    /\ session.visit_number = 2
    /\ session.graph_state.disclosed_fact_ids = << "c1", "c4" >>

\* C2: a fact id the collaborator proposed outside the allowed set of the turn
\* is never in new_disclosed_fact_ids once validate_response has run, and is
\* never added to the stored ledger by the turn.
C2_ProposedOutsideAllowedDropped ==
    \A fid \in run[1].proposed \ AllowedIds(st[1]) :
        /\ pc[1] \in AfterValidate => ~ InSeq(fid, st[1].new_disclosed_fact_ids)
        /\ InSeq(fid, session.graph_state.disclosed_fact_ids)
              => InSeq(fid, run[1].ledger0[1])

C2_Witness ==
    /\ pc[1] = "bump_turn"
    /\ run[1].llm_calls = 2
    /\ st[1].new_disclosed_fact_ids # << >>
    /\ run[1].proposed \ AllowedIds(st[1]) # {}

\* C3: when the run that delivers a logical turn has returned without error,
\* whether it is the first delivery, a redelivery after the commit or a re-run
\* after a crash, the store holds exactly one doctor row and one patient row
\* for the turn and the turn counter is one turn past its value at the first
\* delivery.
C3_ExactlyOncePersistence ==
    (pc[1] = "done" /\ run[1].result = "ok")
        => /\ Cardinality(TurnRows(run[1].lid, "doctor")) = 1
           /\ Cardinality(TurnRows(run[1].lid, "patient")) = 1
           /\ SessionDoc.turn_no = run[1].origin_turn0 + 2

\* C4: a run that finds its turn already persisted writes no message, calls
\* neither update_ledger nor bump_turn, and ends with the in-memory ledger
\* equal to the stored one, which is the one it found.
C4_ResubmitNoOp ==
    (pc[1] \in {"maybe_end_visit", "done"} /\ run[1].already_persisted)
        => /\ run[1].msg_writes = 0
           /\ run[1].ledger_updates = 0
           /\ run[1].bumps = 0
           /\ InMemoryLedger(st[1]) = StoredLedger
           /\ StoredLedger = run[1].ledger0
           /\ SessionDoc.turn_no = run[1].turn0

C4_Witness ==
    /\ pc[1] = "done"
    /\ run[1].already_persisted
    /\ run[1].redelivery

\* C5: when two overlapping deliveries of the same logical turn have both
\* returned, the store holds exactly one doctor row and one patient row for
\* the turn, one of the two found the turn ALREADY_PERSISTED and wrote
\* nothing (no message, no ledger update, no bump), and the stored ledger is
\* the one the other delivery computed.
C5_ConcurrentDuplicateOneWinner ==
    (/\ \A p \in Procs : pc[p] = "done"
     /\ run[1].lid = run[2].lid)
        => /\ Cardinality(TurnRows(run[1].lid, "doctor")) = 1
           /\ Cardinality(TurnRows(run[1].lid, "patient")) = 1
           /\ \E winner \in Procs : \E loser \in Procs \ {winner} :
                 /\ run[loser].already_persisted
                 /\ run[loser].msg_writes = 0
                 /\ run[loser].ledger_updates = 0
                 /\ run[loser].bumps = 0
                 /\ StoredLedger = InMemoryLedger(st[winner])

\* C6: when a write of the NOT_PERSISTED branch fails (doctor message, patient
\* message, ledger update, sequence bump), the stored ledger is what it was
\* before the turn.
C6_FailedWriteKeepsLedger ==
    (pc[1] = "failed" /\ run[1].failed_at \in PersistWrites)
        => StoredLedger = run[1].ledger0

\* C7 (rows): the indices of the rows of a visit are 0 .. n-1 with no index
\* used twice, rows are inserted in increasing index order, and index 0 is the
\* intro.
C7_Indices ==
    \A v \in { messages[i].visit_number : i \in DOMAIN messages } :
        LET rows == VisitMessages(v)
        IN  /\ { messages[i].turn_index : i \in rows } = 0 .. (Cardinality(rows) - 1)
            /\ \A i, j \in rows : i < j => messages[i].turn_index < messages[j].turn_index
            /\ \A i \in rows : messages[i].turn_index = 0
                  => messages[i].role = "patient" /\ messages[i].lid = 0

\* C7 (counter): the stored turn counter changes only by one doctor/patient
\* pair, when a turn commits, or to zero, when the visit ends; ending a visit
\* leaves it at zero.
C7_CounterStep ==
    LET a == session.graph_state.turn_no
        b == session'.graph_state.turn_no
        committed == pc[1] = "bump_turn" /\ pc'[1] = "maybe_end_visit"
    IN  /\ committed => b = a + 2 /\ session'.visit_number = session.visit_number
        /\ session'.visit_number # session.visit_number
            => b = 0 /\ session'.visit_number = session.visit_number + 1
        /\ b # a => committed \/ session'.visit_number # session.visit_number

\* C7: under sequential turns the message indices of a visit are gapless and
\* strictly increasing, the turn counter advances by one doctor/patient pair
\* per committed turn, and an end-visit request resets it to zero.
C7_GaplessSequence == [] C7_Indices /\ [][C7_CounterStep]_vars

C7_Witness ==
    /\ session.visit_number = 2
    /\ session.graph_state.turn_no = 2
    /\ { messages[i].turn_index : i \in VisitMessages(1) } = 0 .. 2
    /\ { messages[i].turn_index : i \in VisitMessages(2) } = 0 .. 2

\* C8: at visit 1, at any level, a message that matches the test-request
\* pattern gets the fixed test-denial utterance from the tool precheck, with
\* no call of the generative collaborator (llm_attempts 0, response_source
\* "tool"), and the stored ledger is unchanged when the turn has committed.
C8_TestDeniedAtVisitOne ==
    (/\ pc[1] \in AfterValidate \cup {"maybe_end_visit", "done"}
     /\ run[1].visit0 = 1
     /\ _looks_like_test_request(run[1].message))
        => /\ st[1].patient_utterance = TestDenialUtterance
           /\ st[1].response_source = "tool"
           /\ st[1].llm_attempts = 0
           /\ run[1].llm_calls = 0
           /\ run[1].msg_writes > 0 /\ pc[1] \in {"update_ledger", "bump_turn"}
                 => \A i \in PatientRowsAt(1) : messages[i].content = TestDenialUtterance
           /\ pc[1] = "done" => StoredLedger = run[1].ledger0

C8_Witness ==
    /\ pc[1] = "done"
    /\ run[1].visit0 = 1
    /\ _looks_like_test_request(run[1].message)
    /\ run[1].bumps = 1
    /\ env.doctor_level = 2

\* C9: at visit 2, with a tests fact among the allowed facts, a test request
\* gets the fixed acknowledgement without a generative call, and the stored
\* performed_tests has gained an entry when the turn has committed.
C9_TestPerformedAtVisitTwo ==
    (/\ pc[1] = "done"
     /\ run[1].bumps = 1
     /\ run[1].visit0 = 2
     /\ _looks_like_test_request(run[1].message)
     /\ \E i \in DOMAIN st[1].allowed_facts : st[1].allowed_facts[i].kind = "tests")
        => /\ st[1].patient_utterance = TestAckUtterance
           /\ run[1].llm_calls = 0
           /\ Len(session.graph_state.performed_tests) > Len(run[1].ledger0[3])

\* the turn of handler 1 is on a viral case, answers a follow-up message and
\* has just stored its patient row
ViralFollowupStored ==
    /\ pc[1] = "update_ledger"
    /\ _is_viral_case(env.case_type)
    /\ _looks_like_followup_request(run[1].message)

\* C10 as stated: on a viral case a turn whose doctor message matches a
\* follow-up pattern is persisted with visit_end_recommendation true and an
\* utterance that contains a gratitude clause, whatever else the message
\* matches and whatever the collaborator answered.
C10_ViralFollowupAlwaysThanks ==
    ViralFollowupStored
        => /\ st[1].visit_end_recommendation
           /\ \A i \in PatientRowsAt(1) : HasThank(messages[i].content)

\* C10: on a viral case a turn whose doctor message matches a follow-up
\* pattern and no test or exam pattern (it is answered by the generative
\* path) is persisted with visit_end_recommendation true, and its utterance
\* contains a gratitude clause unless it has three or more sentences.
C10_ViralFollowupThanks ==
    (ViralFollowupStored /\ PrecheckKind(run[1].message, env.case_type) = "none")
        => /\ st[1].visit_end_recommendation
           /\ PatientRowsAt(1) # {}
           /\ \A i \in PatientRowsAt(1) :
                 \/ HasThank(messages[i].content)
                 \/ SentenceCount(messages[i].content) >= 3

C10_Witness ==
    /\ ViralFollowupStored
    /\ PrecheckKind(run[1].message, env.case_type) = "none"
    /\ run[1].llm_calls = 1
    /\ \E i \in PatientRowsAt(1) :
          /\ messages[i].lid = run[1].lid
          /\ Len(messages[i].content) > 3
          /\ SubSeq(messages[i].content, Len(messages[i].content) - 2,
                    Len(messages[i].content)) = ThanksClause

\* C11: the stored visit number never exceeds max_visits(level), and no
\* end-visit request at the cap has left a trace: no summary is stored for
\* the current visit or a later one.
C11_VisitCap ==
    /\ session.visit_number <= max_visits(env.doctor_level)
    /\ \A v \in DOMAIN summaries : v < session.visit_number

C11_Witness ==
    /\ env.doctor_level = 2
    /\ session.visit_number = max_visits(env.doctor_level)
    /\ session.graph_state.turn_no = 2
    /\ pc[1] = "idle"

\* C12: a run of the turn pipeline never ends or advances the visit:
\* should_end_visit is false at the end-of-visit decision and after it, the
\* summarize step is never entered, and the stored visit number is the one
\* the run started with, also when visit_end_recommendation is true.
C12_NoAutoEndVisit ==
    /\ pc[1] # "summarize_and_embed_visit"
    /\ pc[1] \in {"await_doctor_message", "done"} => ~ st[1].should_end_visit
    /\ pc[1] # "idle" => session.visit_number = run[1].visit0

C12_Witness ==
    /\ pc[1] = "done"
    /\ run[1].bumps = 1
    /\ st[1].visit_end_recommendation
    /\ session.visit_number = 2

\* C13: when the generative collaborator fails, on the first attempt or on
\* the regeneration, the run ends with the error: persist_turn has written no
\* message, the stored ledger and the stored turn counter are what they were
\* when the run started, and a first delivery leaves no row for the turn.
C13_GenerativeFailureNotPersisted ==
    run[1].failed_at \in {"generate_patient_response", "validate_response"}
        => /\ pc[1] = "failed"
           /\ run[1].result = "error"
           /\ run[1].msg_writes = 0
           /\ run[1].ledger_updates = 0
           /\ run[1].bumps = 0
           /\ StoredLedger = run[1].ledger0
           /\ SessionDoc.turn_no = run[1].turn0
           /\ ~ run[1].redelivery
                 => TurnRows(run[1].lid, "doctor") \cup TurnRows(run[1].lid, "patient") = {}

C13_Witness ==
    /\ pc[1] = "failed"
    /\ run[1].failed_at = "validate_response"
    /\ run[1].llm_calls = 1
    /\ ~ run[1].redelivery

\* C14: a visit is never ended while it has no messages: every visit before
\* the stored current one has at least one message (an end-visit request for
\* a visit with nothing to summarize is rejected before any write).
C14_EmptyVisitNotEnded ==
    \A v \in 1 .. (session.visit_number - 1) : VisitMessages(v) # {}

\* C15: every patient row in the store (visit intro, tool response or
\* validated generative response) has content that is not empty, and a turn
\* that reaches the message writes has a non-empty utterance.
C15_PatientContentNonEmpty ==
    /\ \A i \in DOMAIN messages :
          messages[i].role = "patient" => NonBlank(messages[i].content)
    /\ pc[1] \in {"write_doctor_message", "write_patient_message"}
          => NonBlank(st[1].patient_utterance)

C15_Witness ==
    \E i, j, k \in DOMAIN messages :
        /\ messages[i].turn_index = 0 /\ messages[i].visit_number = 2
        /\ messages[j].content = SafeFallbackUtterance
        /\ messages[k].content = TestDenialUtterance

\* C16 (calls): at most two calls of the collaborator in a run; a run that is
\* past validate_response carries no error, and after a second call the
\* decision is never a rejection.
C16_CallBound ==
    /\ run[1].llm_calls <= 2
    /\ st[1].llm_attempts <= 2
    /\ pc[1] \in AfterValidate
          => /\ run[1].result = "none"
             /\ run[1].llm_calls = 2 => ~ st[1].guardrail_rejected /\ st[1].llm_attempts = 2

\* C16 (second call): the second call is made by validate_response, only
\* when the first attempt proposed a fact id outside the allowed set, and
\* the pipeline goes on to persist_turn with what strip-only validation
\* keeps of the second attempt.
C16_SecondCallStep ==
    (run[1].llm_calls = 1 /\ run'[1].llm_calls = 2)
        => /\ pc[1] = "validate_response" /\ pc'[1] = "persist_turn"
           /\ run[1].proposed \ AllowedIds(st[1]) # {}
           /\ SeqToSet(st'[1].new_disclosed_fact_ids) \subseteq AllowedIds(st[1])

\* C16: within one turn the generative collaborator is invoked at most
\* twice, the regeneration only after a first attempt with a disallowed fact
\* id and validated in strip-only mode, with no third call when the second
\* attempt violates again, and the violation is not surfaced as an error.
C16_AtMostOneRegeneration == [] C16_CallBound /\ [][C16_SecondCallStep]_vars

C16_Witness ==
    /\ pc[1] = "persist_turn"
    /\ run[1].llm_calls = 2
    /\ InSeq("fact_id_not_allowed", st[1].safety_flags)
    /\ ~ st[1].guardrail_rejected

\* sub occurs in text as a contiguous run of tokens
IsInfix(sub, text) ==
    \E i \in 0 .. (Len(text) - Len(sub)) : SubSeq(text, i + 1, i + Len(sub)) = sub

\* C17: the greeting of visit n+1, as composed and as stored at index 0 of
\* the visit, contains the summary stored for visit n as a contiguous run
\* of tokens.
C17_GreetingContainsSummary ==
    /\ \A i \in DOMAIN messages :
          LET m == messages[i]
          IN  (m.turn_index = 0 /\ m.visit_number >= 2
                 /\ (m.visit_number - 1) \in DOMAIN summaries)
                 => IsInfix(summaries[m.visit_number - 1], m.content)
    /\ (pc[1] = "persist_patient_intro" /\ st[1].is_new_visit
           /\ st[1].visit_number >= 2
           /\ (st[1].visit_number - 1) \in DOMAIN summaries)
          => IsInfix(summaries[st[1].visit_number - 1], st[1].patient_utterance)

C17_Witness ==
    \E i \in DOMAIN messages :
        /\ messages[i].turn_index = 0 /\ messages[i].visit_number = 3
        /\ messages[i].role = "patient"
        /\ 2 \in DOMAIN summaries
        /\ Len(messages[i].content) > Len(summaries[2]) + 6

\* C18: the policy is monotonic in the visit number: the depth returned for
\* a visit is at most the depth of every later visit, and the tool set
\* returned for a visit is included in the tool set of every later visit.
C18_PolicyMonotonicInVisit ==
    call.done =>
        \A v2 \in PolicyInts :
            call.visit_no <= v2 =>
                /\ call.fn = "max_detail_depth"
                      => call.result <= max_detail_depth(call.level, v2)
                /\ call.fn = "allowed_tools"
                      => call.result \subseteq allowed_tools(call.level, v2)

C18_Witness ==
    /\ call.done /\ call.fn = "max_detail_depth"
    /\ call.visit_no = 4 /\ call.result = 3

\* C19: the three policy functions return a value for every integer
\* argument, the value the source's table gives, and a negative argument
\* gives what the argument clamped to zero gives.
C19_PolicyTotalAndClamped ==
    call.done =>
        LET l0 == Max(0, call.level)
            v0 == Max(0, call.visit_no)
        IN  /\ call.fn = "max_detail_depth"
                  => /\ call.result \in 1 .. 3
                     /\ call.result = max_detail_depth(l0, v0)
            /\ call.fn = "allowed_tools"
                  => /\ {"history", "exam"} \subseteq call.result
                     /\ call.result \subseteq {"history", "exam", "tests"}
                     /\ call.result = allowed_tools(l0, v0)
            /\ call.fn = "max_visits"
                  => /\ call.result \in 2 .. 5
                     /\ call.result = max_visits(l0)

C19_Witness ==
    /\ call.done /\ call.fn = "max_visits"
    /\ call.level < 0 /\ call.result = 2

\* the place of a returned fact in the order (visit number, stage, id)
FactRank(fact) == ChunkSortRank[ChunkOf(fact.id)]

\* C20: every fact build_allowed_facts returns is of the current visit, no
\* deeper than max_detail_depth allows, of a kind that is not exam or tests
\* unless allowed_tools has it, and not in the disclosed set; the list is in
\* ascending (visit number, stage, id) order.
C20_AllowedFactsFilteredAndOrdered ==
    (call.done /\ call.fn = "build_allowed_facts") =>
        LET facts == call.result
        IN  /\ \A i \in DOMAIN facts :
                  LET ch == ChunkOf(facts[i].id)
                  IN  /\ facts[i].id \in ChunkIds
                      /\ ch.visit_no = call.visit_no
                      /\ ch.detail_depth <= max_detail_depth(call.level, call.visit_no)
                      /\ facts[i].kind = ch.kind
                      /\ ch.kind \in {"exam", "tests"}
                            => ch.kind \in allowed_tools(call.level, call.visit_no)
                      /\ ~ InSeq(facts[i].id, call.disclosed_fact_ids)
            /\ \A i, j \in DOMAIN facts : i < j => FactRank(facts[i]) < FactRank(facts[j])

C20_Witness ==
    /\ call.done /\ call.fn = "build_allowed_facts"
    /\ call.visit_no = 1 /\ call.disclosed_fact_ids = << UnknownId >>
    /\ Len(call.result) = 2
    /\ call.result[1].id = "c1" /\ call.result[2].id = "c2"

\* the eligible facts of an evaluation of build_allowed_facts, in order
EligibleFacts ==
    LET sorted == SeqOfSetBy({ ch \in CaseChunks :
                                 EligibleChunk(ch, call.level, call.visit_no,
                                               SeqToSet(call.disclosed_fact_ids)) },
                             ChunkSortRank)
    IN  [ i \in DOMAIN sorted |-> [id |-> sorted[i].chunk_id, kind |-> sorted[i].kind] ]

\* C21: for every bound K >= 0 build_allowed_facts returns at most K facts:
\* exactly the first min(K, n) of the n eligible facts in (visit, stage, id)
\* order.
C21_CappedAtK ==
    (call.done /\ call.fn = "build_allowed_facts" /\ call.max_facts >= 0)
        => LET n == Len(EligibleFacts)
               k == IF call.max_facts < n THEN call.max_facts ELSE n
           IN  /\ Len(call.result) <= call.max_facts
               /\ call.result = SubSeq(EligibleFacts, 1, k)

\* handler 1 has just run tool_precheck on a doctor message
AfterPrecheck ==
    /\ pc[1] \in {"retrieve_context", "persist_turn"}
    /\ st[1].should_call_llm <=> pc[1] = "retrieve_context"

\* C22: the precheck takes the first matching family in the order tests,
\* exam, medication: a message with a test pattern is answered as a test
\* request whatever else it matches, and a message with an exam pattern and
\* no test pattern is answered as an exam request even when it also has a
\* medication pattern.
C22_PrecheckPriority ==
    LET text == st[1].last_doctor_message
    IN  (pc[1] \in {"retrieve_context", "persist_turn"})
          => /\ _looks_like_test_request(text)
                   => /\ pc[1] = "persist_turn" /\ ~ st[1].should_call_llm
                      /\ st[1].response_source = "tool"
                      /\ st[1].patient_utterance \in {TestAckUtterance, TestDenialUtterance}
             /\ (~ _looks_like_test_request(text) /\ _looks_like_exam_request(text))
                   => /\ pc[1] = "persist_turn" /\ ~ st[1].should_call_llm
                      /\ st[1].response_source = "tool"
                      /\ st[1].patient_utterance \in {ExamAckUtterance, ExamDenialUtterance}

C22_Witness ==
    /\ AfterPrecheck /\ pc[1] = "persist_turn"
    /\ _looks_like_test_request(st[1].last_doctor_message)
    /\ _looks_like_exam_request(st[1].last_doctor_message)
    /\ st[1].patient_utterance = TestAckUtterance

C22_WitnessExamOverMedication ==
    /\ AfterPrecheck /\ pc[1] = "persist_turn"
    /\ _looks_like_exam_request(st[1].last_doctor_message)
    /\ _looks_like_medicine_request(st[1].last_doctor_message)
    /\ st[1].patient_utterance = ExamAckUtterance

\* the message handler 1 is serving matches the medication patterns and
\* neither the test nor the exam patterns
MedicationOnly ==
    /\ _looks_like_medicine_request(st[1].last_doctor_message)
    /\ ~ _looks_like_test_request(st[1].last_doctor_message)
    /\ ~ _looks_like_exam_request(st[1].last_doctor_message)

\* C23: a medication request is answered with the fixed refusal and no
\* generative call when the case is not viral; on a viral case the precheck
\* leaves should_call_llm true and the turn is answered by the generative
\* path, however many turns the visit already has.
C23_MedicationRequest ==
    (pc[1] \in {"retrieve_context", "persist_turn"} /\ MedicationOnly)
        => IF _is_viral_case(st[1].case_type)
           THEN /\ st[1].should_call_llm
                /\ pc[1] = "persist_turn"
                      => run[1].llm_calls >= 1 /\ st[1].response_source = "llm"
           ELSE /\ pc[1] = "persist_turn"
                /\ ~ st[1].should_call_llm
                /\ st[1].response_source = "tool"
                /\ st[1].patient_utterance = MedRefusalUtterance
                /\ run[1].llm_calls = 0

\* a second turn of the same visit, a medication request on a viral case
C23_Witness ==
    /\ pc[1] = "persist_turn" /\ MedicationOnly
    /\ _is_viral_case(st[1].case_type)
    /\ run[1].llm_calls = 1
    /\ run[1].turn0 = 2 /\ ~ run[1].redelivery

\* the turn's allowed-fact list has a fact of that kind
HasAllowedFactOfKind(s, kind) ==
    \E i \in DOMAIN s.allowed_facts : s.allowed_facts[i].kind = kind

\* C24: for a message classified as tests or exam the precheck answers with
\* the acknowledgement exactly when the kind is in allowed_tools(level,
\* visit) and the turn's allowed-fact list has a fact of that kind, and with
\* the refusal otherwise.
C24_AcknowledgeIffUnlockedAndOnOffer ==
    LET s == st[1]
        text == s.last_doctor_message
        kind == IF _looks_like_test_request(text) THEN "tests" ELSE "exam"
        ok == /\ kind \in allowed_tools(s.doctor_level, s.visit_number)
              /\ HasAllowedFactOfKind(s, kind)
    IN  (/\ pc[1] = "persist_turn"
         /\ _looks_like_test_request(text) \/ _looks_like_exam_request(text))
          => s.patient_utterance =
                IF kind = "tests"
                THEN (IF ok THEN TestAckUtterance ELSE TestDenialUtterance)
                ELSE (IF ok THEN ExamAckUtterance ELSE ExamDenialUtterance)

\* the exam kind is unlocked but the turn's allowed facts have no exam
\* fact: the request is refused
C24_Witness ==
    /\ pc[1] = "persist_turn"
    /\ PrecheckKind(st[1].last_doctor_message, st[1].case_type) = "exam"
    /\ "exam" \in allowed_tools(st[1].doctor_level, st[1].visit_number)
    /\ ~ HasAllowedFactOfKind(st[1], "exam")
    /\ st[1].patient_utterance = ExamDenialUtterance

\* every element of the three stored ledger lists is kept by the step
C25_LedgerStep ==
    \A k \in 1 .. 3 : SeqToSet(StoredLedger[k]) \subseteq SeqToSet(StoredLedger'[k])

\* C25: with one request at a time, each of the stored disclosed_fact_ids,
\* performed_exams and performed_tests only grows: no committed turn, reload
\* of an already persisted turn or end-visit removes an element.
C25_LedgerOnlyGrows == [][C25_LedgerStep]_vars

\* a second turn has committed on a ledger the first turn had filled, and
\* the visit was ended in between
C25_Witness ==
    /\ pc[1] = "done" /\ run[1].bumps = 1
    /\ run[1].ledger0[1] # << >>
    /\ Len(session.graph_state.disclosed_fact_ids) > Len(run[1].ledger0[1])
    /\ session.visit_number = 2

\* C26: when the retry of a turn that failed inside persist_turn has
\* returned, the stored turn counter is past the rows of the turn and the
\* accepted fact ids of the turn are in the stored ledger; and a doctor
\* message that is not a redelivery is never found already persisted.
C26_RetryCompletesTurn ==
    /\ (/\ pc[1] = "done" /\ run[1].result = "ok" /\ run[1].redelivery
         /\ TurnRows(run[1].lid, "patient") # {})
          => /\ \A i \in TurnRows(run[1].lid, "patient") :
                   messages[i].turn_index <= SessionDoc.turn_no
             /\ SeqToSet(st[1].new_disclosed_fact_ids)
                   \subseteq SeqToSet(session.graph_state.disclosed_fact_ids)
    /\ (pc[1] \in {"maybe_end_visit", "done"} /\ ~ run[1].redelivery)
          => ~ run[1].already_persisted

\* C27: the writes of the NOT_PERSISTED branch come in the order doctor
\* message, patient message, ledger, turn counter: whenever the stored turn
\* counter names a turn, the doctor and the patient row of that turn are
\* stored, and whenever a run has changed the stored ledger, the rows at the
\* doctor and the patient index of its turn are stored.
C27_MessagesBeforeLedgerAndCounter ==
    /\ SessionDoc.turn_no > 0
          => /\ HasMessage(SessionDoc.visit_no, SessionDoc.turn_no - 1)
             /\ HasMessage(SessionDoc.visit_no, SessionDoc.turn_no)
    /\ (pc[1] # "idle" /\ (StoredLedger # run[1].ledger0 \/ run[1].ledger_updates > 0))
          => /\ HasMessage(st[1].visit_number, st[1].doctor_turn_no)
             /\ HasMessage(st[1].visit_number, st[1].doctor_turn_no + 1)

\* the ledger of the turn is stored, the counter is not yet
C27_Witness ==
    /\ pc[1] = "bump_turn"
    /\ StoredLedger # run[1].ledger0
    /\ SessionDoc.turn_no = run[1].turn0
    /\ run[1].msg_writes = 2

\* C28: a failure of the embedding of the doctor or of the patient message
\* does not fail the turn: the run goes on to the next write with no error,
\* and when it has returned both rows are stored, the ledger was updated
\* and the turn counter has advanced.
C28_EmbeddingFailureNotFatal ==
    run[1].embed_failures > 0
        => /\ pc[1] = "write_patient_message"
                 => /\ run[1].result = "none"
                    /\ HasMessage(st[1].visit_number, st[1].doctor_turn_no)
           /\ pc[1] \in {"update_ledger", "bump_turn", "maybe_end_visit", "done"}
                 => /\ HasMessage(run[1].visit0, run[1].turn0 + 1)
                    /\ HasMessage(run[1].visit0, run[1].turn0 + 2)
           /\ pc[1] = "done"
                 => /\ run[1].result = "ok"
                    /\ run[1].ledger_updates = 1
                    /\ run[1].bumps = 1
                    /\ SessionDoc.turn_no = run[1].turn0 + 2
           /\ pc[1] = "failed"
                 => run[1].failed_at \in {"write_patient_message", "update_ledger", "bump_turn"}

\* both embeddings of a generative turn raised and the turn committed
C28_Witness ==
    /\ pc[1] = "done" /\ run[1].result = "ok"
    /\ run[1].embed_failures = 2
    /\ run[1].llm_calls = 1
    /\ run[1].msg_writes = 2 /\ run[1].bumps = 1

\* C29: between the load at the start of a turn and its end, at most one
\* update is issued to the session row.
C29_SessionRowWrittenOnce ==
    run[1].ledger_updates + run[1].bumps <= 1

\* handler 1 is at a node of the turn before persist_turn
\* (await_doctor_message is entered again, without a message, after the turn)
BeforePersist ==
    \/ pc[1] \in { "load_state", "compose_visit_intro", "persist_patient_intro",
                    "reset_turn_outputs", "tool_precheck", "retrieve_context",
                    "generate_patient_response", "validate_response" }
    \/ pc[1] = "await_doctor_message" /\ NonBlank(st[1].last_doctor_message)

\* C30 (states): no generative call before the precheck has run; nothing of
\* the turn is written before persist_turn; a message the precheck handled
\* is at no generative node and has no generative call; a message it did not
\* handle reaches persist_turn with a generative call made and validated.
C30_OrderState ==
    /\ (BeforePersist /\ pc[1] # "validate_response") => run[1].llm_calls = 0
    /\ (BeforePersist \/ pc[1] = "persist_turn")
          => run[1].msg_writes = 0 /\ run[1].ledger_updates = 0 /\ run[1].bumps = 0
    /\ (pc[1] \in {"retrieve_context", "generate_patient_response", "validate_response",
                    "persist_turn"} /\ st[1].response_source = "tool")
          => pc[1] = "persist_turn" /\ run[1].llm_calls = 0 /\ st[1].llm_attempts = 0
    /\ (pc[1] = "persist_turn" /\ st[1].response_source # "tool")
          => run[1].llm_calls >= 1 /\ st[1].llm_attempts >= 1

\* C30 (steps): the successor of each node of the turn
C30_OrderStep ==
    /\ pc[1] = "reset_turn_outputs" => pc'[1] = "tool_precheck"
    /\ pc[1] = "tool_precheck"
          => pc'[1] = IF st'[1].response_source = "tool"
                      THEN "persist_turn" ELSE "retrieve_context"
    /\ pc[1] = "retrieve_context" => pc'[1] = "generate_patient_response"
    /\ pc[1] = "generate_patient_response"
          => /\ pc'[1] \in {"validate_response", "failed"}
             /\ pc'[1] = "validate_response" => run'[1].llm_calls = 1
    /\ pc[1] = "validate_response" => pc'[1] \in {"persist_turn", "failed"}
    /\ pc'[1] = "persist_turn" => pc[1] \in {"tool_precheck", "validate_response"}

\* C30: per doctor message the steps come in a fixed order: the precheck
\* before any generative call; for a handled message persistence directly,
\* with no retrieval, generative call or guardrail step; otherwise
\* retrieval, a generative call and the guardrail validation, all before
\* persist_turn writes anything.
C30_PipelineOrder == [] C30_OrderState /\ [][C30_OrderStep]_vars

C30_Witness ==
    /\ pc[1] = "write_doctor_message"
    /\ st[1].response_source = "llm"
    /\ run[1].llm_calls = 1
    /\ run[1].msg_writes = 0

C30_WitnessHandled ==
    /\ pc[1] = "write_doctor_message"
    /\ st[1].response_source = "tool"
    /\ run[1].llm_calls = 0

\* C31: when tool_precheck handles a message the state it returns has
\* should_call_llm false and the bookkeeping of the model's attempts cleared
\* (llm_attempts, llm_usage, raw_llm_output, guardrail_rejected,
\* safety_flags, new_disclosed_fact_ids); when the message is unclassified
\* (or there is none) it returns the state it was given with should_call_llm
\* true and no other field changed.
C31_PrecheckFrame ==
    (call.done /\ call.fn = "tool_precheck")
        => LET s == call.state
               r == call.result
               handled == /\ s.last_doctor_message # NoText
                          /\ PrecheckKind(s.last_doctor_message, s.case_type) # "none"
           IN  IF handled
               THEN /\ ~ r.should_call_llm
                    /\ r.llm_attempts = 0
                    /\ r.llm_usage = 0
                    /\ r.raw_llm_output = NoText
                    /\ ~ r.guardrail_rejected
                    /\ r.safety_flags = << >>
                    /\ r.new_disclosed_fact_ids = << >>
                    /\ r.response_source = "tool"
               ELSE r = [ s EXCEPT !.should_call_llm = TRUE ]

\* a handled message on a state that carried a rejected second attempt
C31_Witness ==
    /\ call.done /\ call.fn = "tool_precheck"
    /\ call.state.guardrail_rejected /\ call.state.llm_attempts = 2
    /\ call.state.safety_flags # << >>
    /\ call.result.patient_utterance = MedRefusalUtterance
    /\ call.result.safety_flags = << >>

\* an unclassified message on a state with should_call_llm false
C31_WitnessUnclassified ==
    /\ call.done /\ call.fn = "tool_precheck"
    /\ ~ call.state.should_call_llm /\ call.state.llm_attempts = 1
    /\ call.result.should_call_llm /\ call.result.llm_attempts = 1

\* the flag validate_fact_ids gives an id, "" for an accepted one
IdFlag(fid, allowed_ids, disclosed_ids) ==
    IF fid \notin allowed_ids THEN "fact_id_not_allowed"
    ELSE IF fid \in disclosed_ids THEN "fact_id_repeated" ELSE ""

\* C32 (validate_fact_ids): the accepted list is the proposed ids, in their
\* order, that are allowed and not disclosed; the flags are, in order, one
\* not-allowed flag per id outside the allowed set and one repeated flag per
\* allowed id that is already disclosed.
C32_Partition ==
    (call.done /\ call.fn = "validate_fact_ids")
        => LET proposed  == call.state.new_disclosed_fact_ids
               allowed   == AllowedIds(call.state)
               disclosed == SeqToSet(call.disclosed_fact_ids)
               dropped   == SelectSeq(proposed,
                                LAMBDA fid : IdFlag(fid, allowed, disclosed) # "")
           IN  /\ call.result.safe =
                     SelectSeq(proposed, LAMBDA fid : IdFlag(fid, allowed, disclosed) = "")
               /\ call.result.flags =
                     [ i \in DOMAIN dropped |-> IdFlag(dropped[i], allowed, disclosed) ]

\* C32 (apply_guardrails): the decision carries the accepted ids and is a
\* rejection exactly when an id was outside the allowed set and the mode is
\* reject-once; in strip-only mode it never is.
C32_Decision ==
    (call.done /\ call.fn = "apply_guardrails")
        => LET proposed  == call.state.new_disclosed_fact_ids
               allowed   == AllowedIds(call.state)
               disclosed == SeqToSet(call.state.disclosed_fact_ids)
           IN  /\ call.result.new_disclosed_fact_ids =
                     SelectSeq(proposed, LAMBDA fid : IdFlag(fid, allowed, disclosed) = "")
               /\ call.result.rejected
                     <=> /\ \E i \in DOMAIN proposed : proposed[i] \notin allowed
                         /\ call.mode = "reject_once_else_strip"
               /\ InSeq("fact_id_not_allowed", call.result.safety_flags)
                     <=> \E i \in DOMAIN proposed : proposed[i] \notin allowed

\* C32: validate_fact_ids partitions the proposed ids into accepted,
\* not-allowed and repeated, and the guardrail decision is a rejection if
\* and only if an id was not allowed and the mode is reject-once.
C32_FactIdPartition == C32_Partition /\ C32_Decision

\* an allowed id, a disclosed allowed id and an unknown id in one proposal
C32_Witness ==
    /\ call.done /\ call.fn = "validate_fact_ids"
    /\ call.state.new_disclosed_fact_ids = << "c4", "c2", "c1", UnknownId >>
    /\ call.result.safe = << "c1" >>
    /\ call.result.flags = << "fact_id_not_allowed", "fact_id_repeated", "fact_id_not_allowed" >>

C32_WitnessStripOnly ==
    /\ call.done /\ call.fn = "apply_guardrails" /\ call.mode = "strip_only"
    /\ InSeq("fact_id_not_allowed", call.result.safety_flags)
    /\ ~ call.result.rejected

\* C33: the gratitude rule of validate_response is bounded: it appends the
\* clause at most once, leaves an utterance alone that has a thanks or three
\* or more sentences (or is empty), does nothing on a non-viral case or a
\* message without a follow-up pattern, and applied to its own result it
\* changes nothing.
C33_GratitudeRuleBounded ==
    (call.done /\ call.fn = "ViralFollowupRule")
        => LET s == call.state
               r == call.result
               u == s.patient_utterance
               applies == /\ _is_viral_case(s.case_type)
                          /\ _looks_like_followup_request(s.last_doctor_message)
           IN  /\ ~ applies => r = s
               /\ applies
                     => /\ r = [ s EXCEPT !.visit_end_recommendation = TRUE,
                                          !.patient_utterance = r.patient_utterance ]
                        /\ (u = NoText \/ HasThank(u) \/ SentenceCount(u) >= 3)
                              => r.patient_utterance = u
                        /\ r.patient_utterance \in {u, RStrip(u) \o ThanksClause}
               /\ ViralFollowupRule(r) = r

\* a three-sentence utterance without thanks on a viral follow-up: unchanged
C33_Witness ==
    /\ call.done /\ call.fn = "ViralFollowupRule"
    /\ _is_viral_case(call.state.case_type)
    /\ _looks_like_followup_request(call.state.last_doctor_message)
    /\ ~ HasThank(call.state.patient_utterance)
    /\ SentenceCount(call.state.patient_utterance) = 3
    /\ call.result.patient_utterance = call.state.patient_utterance
    /\ call.result.visit_end_recommendation

\* a short utterance without thanks: the clause is appended after rstrip
C33_WitnessAppended ==
    /\ call.done /\ call.fn = "ViralFollowupRule"
    /\ call.state.patient_utterance = << "fine", ".", Blank >>
    /\ call.result.patient_utterance = << "fine", ".", Blank, "Thanks", "." >>

\* C34: a run entered without a doctor message suspends at the await step:
\* it never reaches a node after it (it ends suspended, or failed when the
\* store raised before the await step), every step of it leaves the session row
\* (ledger, counters) alone, and the only row it may add is the patient intro
\* at index 0 of a visit whose stored counter is zero.
C34_EmptyRun == pc[1] # "idle" /\ ~ NonBlank(run[1].message)

C34_IntroRow(row) ==
    /\ row.role = "patient" /\ row.turn_index = 0
    /\ row.visit_number = session.visit_number
    /\ session.graph_state.turn_no = 0

C34_Step ==
    (C34_EmptyRun /\ C34_EmptyRun')
        => /\ session' = session
           /\ \/ messages' = messages
              \/ /\ Len(messages') = Len(messages) + 1
                 /\ SubSeq(messages', 1, Len(messages)) = messages
                 /\ C34_IntroRow(messages'[Len(messages')])
           /\ pc'[1] \in {"load_state", "compose_visit_intro", "persist_patient_intro",
                          "await_doctor_message", "done", "failed"}

C34_EmptyMessageSuspends == [][C34_Step]_vars

\* an empty run of a resumed session, after a committed turn, suspended
C34_Witness ==
    /\ C34_EmptyRun /\ pc[1] = "done" /\ run[1].result = "ok"
    /\ session.graph_state.turn_no > 0
    /\ ~ st[1].is_new_visit

\* an empty run that wrote the intro of a new visit
C34_WitnessIntro ==
    /\ C34_EmptyRun /\ pc[1] = "done"
    /\ session.visit_number = 2
    /\ Len(messages) = 1 /\ messages[1].visit_number = 2 /\ messages[1].turn_index = 0

\* the nodes that process a doctor message
ProcessingMessage ==
    { "reset_turn_outputs", "tool_precheck", "retrieve_context",
      "generate_patient_response", "validate_response", "persist_turn",
      "write_doctor_message", "write_patient_message", "update_ledger",
      "bump_turn", "maybe_end_visit" }

\* C35 (step): an accepted end-visit request advances the stored visit number
\* by exactly one, resets the stored turn counter to zero and leaves the three
\* ledger lists and the messages unchanged.
C35_EndVisitStep ==
    EndVisit
        => /\ session'.visit_number = session.visit_number + 1
           /\ session'.turn_in_visit = 0
           /\ session'.graph_state.turn_no = 0
           /\ session'.graph_state.disclosed_fact_ids = session.graph_state.disclosed_fact_ids
           /\ session'.graph_state.performed_exams = session.graph_state.performed_exams
           /\ session'.graph_state.performed_tests = session.graph_state.performed_tests
           /\ messages' = messages

\* C35 (states): a run that starts on a stored counter of zero is
\* visit-initial, and no doctor message is processed in a visit before the
\* greeting of that visit is stored as a patient row at index 0.
C35_GreetingFirst ==
    /\ (pc[1] = "compose_visit_intro" /\ run[1].turn0 = 0) => st[1].is_new_visit
    /\ pc[1] \in ProcessingMessage
          => \E i \in DOMAIN messages :
                /\ messages[i].visit_number = st[1].visit_number
                /\ messages[i].turn_index = 0
                /\ messages[i].role = "patient"
                /\ messages[i].content[1] =
                      (IF st[1].visit_number = 1 THEN FirstVisitIntro[1] ELSE "welcome_back")

C35_EndVisitFrame == [] C35_GreetingFirst /\ [][C35_EndVisitStep]_vars

\* after a committed turn in visit 1 the visit was ended, and the first run
\* of visit 2 has stored the greeting and processes its doctor message
C35_Witness ==
    /\ session.visit_number = 2
    /\ run[1].visit0 = 2 /\ run[1].turn0 = 0
    /\ session.graph_state.disclosed_fact_ids # << >>
    /\ pc[1] = "tool_precheck"
    /\ \E i \in DOMAIN messages :
          messages[i].visit_number = 2 /\ messages[i].turn_index = 0
    /\ \E i \in DOMAIN messages :
          messages[i].visit_number = 1 /\ messages[i].turn_index = 2

\* C36: the stored visit number never falls below the visit number an
\* end-visit response has reported, also when the request overlaps a turn
\* that loaded the session before the visit was advanced.
C36_VisitNumberNeverDecreases ==
    run[2].result = "visit_ended" => session.visit_number >= run[2].visit0

\* rows stored at index 0 of a visit
IntroRows(visit_no) ==
    { i \in DOMAIN messages :
        messages[i].visit_number = visit_no /\ messages[i].turn_index = 0 }

\* C37 (states): a visit never has two rows at index 0, and once a run
\* (with or without a doctor message) is past persist_patient_intro its
\* visit has exactly one, a patient row.
C37_OneIntroPerVisit ==
    /\ \A i \in DOMAIN messages : Cardinality(IntroRows(messages[i].visit_number)) <= 1
    /\ pc[1] \in ProcessingMessage \cup {"await_doctor_message", "done"}
          => /\ Cardinality(IntroRows(st[1].visit_number)) = 1
             /\ \A i \in IntroRows(st[1].visit_number) : messages[i].role = "patient"

\* C37 (step): persisting the intro leaves the session row (ledger and turn
\* counter) unchanged.
C37_IntroStep ==
    pc[1] = "persist_patient_intro" => session' = session

C37_IntroPersistedOnce == [] C37_OneIntroPerVisit /\ [][C37_IntroStep]_vars

\* the session was opened and then served a first doctor message in one
\* visit (two runs on a counter of zero): one intro row
C37_Witness ==
    /\ runs = 2 /\ sent = 1 /\ run[1].turn0 = 0 /\ run[1].visit0 = 1
    /\ pc[1] = "tool_precheck"
    /\ Cardinality(IntroRows(1)) = 1

\* doctor rows of a visit whose patient row is stored at the next index
\* (the turns TurnRepo.start_turn reports as persisted)
StoredPairs(visit_no) ==
    { i \in VisitMessages(visit_no) :
        /\ messages[i].role = "doctor"
        /\ \E j \in VisitMessages(visit_no) :
              /\ messages[j].role = "patient"
              /\ messages[j].turn_index = messages[i].turn_index + 1 }

\* the stored counter is even, doctor rows are at odd and patient rows at
\* even indices
C38_Parity ==
    /\ session.graph_state.turn_no % 2 = 0
    /\ \A i \in DOMAIN messages :
          /\ messages[i].role = "doctor" => messages[i].turn_index % 2 = 1
          /\ messages[i].role = "patient" => messages[i].turn_index % 2 = 0

\* between requests
C38_AtRest == pc[1] = "idle" \/ (pc[1] = "done" /\ run[1].result = "ok")

\* C38: with one request at a time the stored counter is even and, between
\* requests, twice the number of turns stored in the current visit; doctor
\* rows are at odd and patient rows at even indices, and between requests
\* every doctor row at index i has its patient row at index i+1.
C38_CounterMatchesTurns ==
    /\ C38_Parity
    /\ C38_AtRest
          => /\ session.graph_state.turn_no
                   = 2 * Cardinality(StoredPairs(session.visit_number))
             /\ \A i \in DOMAIN messages :
                   messages[i].role = "doctor"
                      => i \in StoredPairs(messages[i].visit_number)

\* the answers of the collaborator whose raw text the turn state holds
LastAnswers ==
    { res \in LLMOutputs : st[1].raw_llm_output = << "raw" >> \o res.patient_utterance }

\* a turn that was regenerated and has just been validated
C39_Regenerated ==
    /\ pc[1] = "persist_turn"
    /\ run[1].llm_calls = 2
    /\ st[1].llm_attempts = 2

\* C39: after a regeneration the validated turn holds what the second answer
\* alone gives: its utterance (stripped of unsafe mentions, then the viral
\* follow-up rule), its fact ids as far as they are allowed and new, its
\* flags with those of the second guardrail pass, and its visit-end
\* recommendation (or the one of the viral follow-up rule).  No fact id is in
\* new_disclosed_fact_ids that the second answer did not propose.
C39_OnlySecondAttempt ==
    C39_Regenerated
        => /\ Cardinality(LastAnswers) = 1
           /\ \A res2 \in LastAnswers :
                 LET s  == st[1]
                     v  == validate_fact_ids(res2.new_disclosed_fact_ids, AllowedIds(s),
                                             SeqToSet(s.disclosed_fact_ids))
                     u  == strip_unsafe_mentions(res2.patient_utterance)
                     viral == /\ _is_viral_case(s.case_type)
                              /\ _looks_like_followup_request(s.last_doctor_message)
                 IN  /\ s.new_disclosed_fact_ids = v.safe
                     /\ SeqToSet(s.new_disclosed_fact_ids)
                           \subseteq SeqToSet(res2.new_disclosed_fact_ids)
                     /\ s.safety_flags = res2.safety_flags \o v.flags \o u.flags
                     /\ ~ s.guardrail_rejected
                     /\ s.visit_end_recommendation = (res2.visit_end_recommendation \/ viral)
                     /\ s.patient_utterance
                           = (IF viral /\ u.text # NoText /\ ~ HasThank(u.text)
                              THEN _append_thanks(u.text) ELSE u.text)

\* the first answer proposed c1 (accepted) with an id that is not allowed;
\* the second answer proposes only an unknown id: nothing is disclosed
C39_Witness ==
    /\ C39_Regenerated
    /\ "c1" \in run[1].proposed
    /\ "c1" \in AllowedIds(st[1])
    /\ "c1" \notin SeqToSet(st[1].disclosed_fact_ids)
    /\ st[1].new_disclosed_fact_ids = << >>
    /\ \E res2 \in LastAnswers : res2.new_disclosed_fact_ids = << UnknownId >>

\* a list without a repeated entry
NoDuplicates(seq) == Cardinality(SeqToSet(seq)) = Len(seq)

\* C40: the stored ledger lists have no repeated entry, performed_exams and
\* performed_tests are included in disclosed_fact_ids, and their entries
\* are ids of case chunks of kind exam and tests; also after a turn whose
\* answer proposed one allowed id twice.
C40_LedgerWellFormed ==
    LET g == session.graph_state
    IN  /\ NoDuplicates(g.disclosed_fact_ids)
        /\ NoDuplicates(g.performed_exams)
        /\ NoDuplicates(g.performed_tests)
        /\ SeqToSet(g.performed_exams) \subseteq SeqToSet(g.disclosed_fact_ids)
        /\ SeqToSet(g.performed_tests) \subseteq SeqToSet(g.disclosed_fact_ids)
        /\ \A fid \in SeqToSet(g.performed_exams) :
              fid \in ChunkIds /\ ChunkOf(fid).kind = "exam"
        /\ \A fid \in SeqToSet(g.performed_tests) :
              fid \in ChunkIds /\ ChunkOf(fid).kind = "tests"

\* the ledger was written for a turn whose validated ids are c2 twice
C40_Witness ==
    /\ pc[1] = "bump_turn"
    /\ st[1].new_disclosed_fact_ids = << "c2", "c2" >>
    /\ session.graph_state.performed_exams = << "c2" >>
    /\ "c2" \in SeqToSet(session.graph_state.disclosed_fact_ids)

\* a test result is in the stored ledger
C40_WitnessTests ==
    /\ session.graph_state.performed_tests # << >>
    /\ Len(session.graph_state.disclosed_fact_ids) >= 2

====
